---------------------------- MODULE Spec2Model ----------------------------
(***************************************************************************)
(* Verification model of the proxmox-backup storage core.                  *)
(*                                                                         *)
(* The module holds independent state machines, each with its own          *)
(* specification:                                                          *)
(*   SpecTape   the framed block reader (pbs-tape/src/blocked_reader.rs)   *)
(*              reading a medium produced by the block writer;             *)
(*   SpecSnap   snapshot directories, protection and BackupDir::destroy    *)
(*              (pbs-datastore/src/backup_info.rs);                        *)
(*   SpecGc     chunk store, backup writers and mark-and-sweep garbage     *)
(*              collection (design of spec sections 4.A and 4.F);          *)
(*   SpecCache  the journalled RRD cache (proxmox-rrd/src/cache.rs);       *)
(*   SpecPrune  prune_datastore over one backup group                      *)
(*              (src/server/prune_job.rs);                                 *)
(*   SpecGroup  BackupGroup::destroy (pbs-datastore/src/backup_info.rs);   *)
(*   SpecLock   the manifest lock file of one snapshot: lock_manifest and  *)
(*              the unlink at the end of BackupDir::destroy;               *)
(*   SpecRrd    one round-robin database: RRD::update and extract_data     *)
(*              (src/rrd/rrd.rs);                                          *)
(*   SpecList   listing one backup group: list_backups, sort_list,         *)
(*              last_backup and last_successful_backup                     *)
(*              (pbs-datastore/src/backup_info.rs);                        *)
(*   SpecMark   the marks of compute_prune_info (spec section 4.G);        *)
(*   SpecStore  chunk insert, read, touch and removal (spec section 4.A); *)
(*   SpecRw     threads on the RwLock of the RRD cache                     *)
(*              (proxmox-rrd/src/cache.rs);                                *)
(*   SpecFc     file_chunker on a reader with short reads (src/tools.rs).  *)
(* A specification moves only the variables of its own machine; the other  *)
(* machines stay in their idle state.                                      *)
(***************************************************************************)
EXTENDS Integers, Sequences, FiniteSets, TLC

VARIABLES
    \* ---- tape ----
    tape,        \* the medium: sequence of block frames, followed by a file mark
    tape_pos,    \* number of frames the drive has delivered
    tape_eof,    \* TRUE once the drive has reported the file mark
    reader,      \* the BlockedReader (its fields), or NoReader
    t_in,        \* what was written: [data, fin, corrupt]
    t_out,       \* concatenation of the bytes delivered by read()
    t_last,      \* the last call on the reader and its result
    t_skipped,   \* TRUE once skip_data() was called
    t_pre,       \* before the last call: reader, t_failed, t_out, tape_pos; buffer size
    t_failed,    \* TRUE once a read() has returned an error
    t_query,     \* the last has_end_marker / is_incomplete call and its answer
    \* ---- snapshots ----
    snaps,       \* snapshot -> [exists, files]: the snapshot directory
    snap_lock,   \* snapshot -> "free" | "other": flock on the directory
    manifest_lock, \* snapshot -> "free" | "other": the manifest lock file
    s_last,      \* the last destroy call, its inputs and its outcome
    \* ---- chunk store and garbage collection ----
    gc_now,      \* the clock
    chunks,      \* digest -> [present, atime]: the chunk store
    writers,     \* writer -> the backup it runs and the snapshot it produces
    gc,          \* the garbage collector: phase, t_start, progress
    \* ---- RRD cache ----
    c_now,       \* the next reading of the clock (epoch_f64)
    rrd_map,     \* rel_path -> RRD in RAM, or NoRRD (RRDCacheState.rrd_map)
    journal,     \* the lines of rrd.journal
    rrd_files,   \* rel_path -> the RRD file on disk, or NoRRD
    last_journal_flush, \* RRDCacheState.last_journal_flush
    c_logged,    \* rel_path -> every update ever appended to the journal
    c_faulted,   \* TRUE once a journal replay or an update was cut short by an I/O error
    c_count,     \* number of update_value calls so far
    c_faults,    \* number of calls that met an I/O error so far
    c_last,      \* the last call on the cache and what it did
    \* ---- backup group: prune and group destroy ----
    g_dir,       \* TRUE while the group directory exists
    g_snaps,     \* snapshot -> [exists, files]: the snapshot directories of the group
    g_lock,      \* snapshot -> "free" | "other": flock on the snapshot directory
    g_mlock,     \* snapshot -> "free" | "other": the manifest lock
    g_glock,     \* "free" | "other" | "self": flock on the group directory
    prune,       \* the prune_datastore run
    gd,          \* the BackupGroup::destroy call
    \* ---- manifest lock file ----
    mlck,        \* the lock file of one snapshot and the processes using it
    \* ---- round-robin database ----
    r_rrd,       \* the RRD: last_update and the slots of every resolution
    r_times,     \* resolution -> slot -> the epochs whose values the slot aggregates
    r_count,     \* number of update calls so far
    r_last,      \* the last call on the RRD: update or extract_data, with its result
    \* ---- listing a backup group ----
    l_snaps,     \* backup time -> [exists, files]: the snapshot directories
    l_last,      \* the last listing call, the scan order it met and its result
    \* ---- prune marks ----
    m_in,        \* the snapshots of a group (list_backups), those protected, and the PruneOptions
    m_out,       \* the marks compute_prune_info returned, or NoMarks
    \* ---- chunk store ----
    st_canon,    \* inode the canonical path names, NoFile if none
    st_data,     \* inode -> bytes written
    st_atime,    \* access time of the canonical file
    st_ins,      \* inserter -> its insert in progress
    st_count,    \* inserts started
    st_read,     \* result of the last read
    \* ---- RRD cache locking ----
    rw_lock,     \* the RwLock: writer and readers holding it
    rw_thr,      \* thread -> its call in progress
    rw_journal,  \* entries in the journal file
    rw_ram,      \* entries applied to the RRDs in RAM
    rw_busy,     \* threads in the middle of changing an RRD
    rw_count,    \* calls started
    \* ---- file chunker ----
    fc_in,       \* the input stream
    fc_file,     \* the input not read yet
    fc_buf,      \* the read buffer
    fc,          \* position of the call and its locals
    fc_out       \* the calls of the callback so far

tapeVars == <<tape, tape_pos, tape_eof, reader, t_in, t_out, t_last, t_skipped,
              t_pre, t_failed, t_query>>

snapVars == <<snaps, snap_lock, manifest_lock, s_last>>

gcVars == <<gc_now, chunks, writers, gc>>

cacheVars == <<c_now, rrd_map, journal, rrd_files, last_journal_flush,
               c_logged, c_faulted, c_count, c_faults, c_last>>

groupVars == <<g_dir, g_snaps, g_lock, g_mlock, g_glock, prune, gd>>

lockVars == <<mlck>>

rrdVars == <<r_rrd, r_times, r_count, r_last>>

listVars == <<l_snaps, l_last>>

markVars == <<m_in, m_out>>

storeVars == <<st_canon, st_data, st_atime, st_ins, st_count, st_read>>

rwVars == <<rw_lock, rw_thr, rw_journal, rw_ram, rw_busy, rw_count>>

fcVars == <<fc_in, fc_file, fc_buf, fc, fc_out>>

vars == <<tapeVars, snapVars, gcVars, cacheVars, groupVars, lockVars,
          rrdVars, listVars, markVars, storeVars, rwVars, fcVars>>

\* What an action of one machine leaves alone: the other machines.
TapeFrame ==
    UNCHANGED <<snapVars, gcVars, cacheVars, groupVars, lockVars, rrdVars,
                listVars, markVars, storeVars, rwVars, fcVars>>
SnapFrame ==
    UNCHANGED <<tapeVars, gcVars, cacheVars, groupVars, lockVars, rrdVars,
                listVars, markVars, storeVars, rwVars, fcVars>>
GcFrame ==
    UNCHANGED <<tapeVars, snapVars, cacheVars, groupVars, lockVars,
                rrdVars, listVars, markVars, storeVars, rwVars, fcVars>>
CacheFrame ==
    UNCHANGED <<tapeVars, snapVars, gcVars, groupVars, lockVars, rrdVars,
                listVars, markVars, storeVars, rwVars, fcVars>>
GroupFrame ==
    UNCHANGED <<tapeVars, snapVars, gcVars, cacheVars, lockVars, rrdVars,
                listVars, markVars, storeVars, rwVars, fcVars>>
LockFrame ==
    UNCHANGED <<tapeVars, snapVars, gcVars, cacheVars, groupVars, rrdVars,
                listVars, markVars, storeVars, rwVars, fcVars>>
RrdFrame ==
    UNCHANGED <<tapeVars, snapVars, gcVars, cacheVars, groupVars, lockVars,
                listVars, markVars, storeVars, rwVars, fcVars>>
ListFrame ==
    UNCHANGED <<tapeVars, snapVars, gcVars, cacheVars, groupVars, lockVars,
                rrdVars, markVars, storeVars, rwVars, fcVars>>
MarkFrame ==
    UNCHANGED <<tapeVars, snapVars, gcVars, cacheVars, groupVars, lockVars,
                rrdVars, listVars, storeVars, rwVars, fcVars>>
StoreFrame ==
    UNCHANGED <<tapeVars, snapVars, gcVars, cacheVars, groupVars, lockVars,
                rrdVars, listVars, markVars, rwVars, fcVars>>
RwFrame ==
    UNCHANGED <<tapeVars, snapVars, gcVars, cacheVars, groupVars, lockVars,
                rrdVars, listVars, markVars, storeVars, fcVars>>
FcFrame ==
    UNCHANGED <<tapeVars, snapVars, gcVars, cacheVars, groupVars, lockVars,
                rrdVars, listVars, markVars, storeVars, rwVars>>

---------------------------------------------------------------------------
(***************************************************************************)
(* Generic helpers                                                         *)
(***************************************************************************)
Min(a, b) == IF a < b THEN a ELSE b

IsPrefix(s, t) == Len(s) <= Len(t) /\ SubSeq(t, 1, Len(s)) = s

SeqsUpTo(S, n) == UNION { [1..k -> S] : k \in 0..n }

---------------------------------------------------------------------------
(***************************************************************************)
(* TAPE: medium and block writer                                           *)
(***************************************************************************)

\* payload capacity of one block (BlockHeader.payload.len())
PayloadLen == 2
\* longest byte string written
MaxDataLen == 4
\* largest caller buffer handed to read()
MaxBufLen == 3

Bytes == {0, 1}

NoReader == [open |-> FALSE]

\* A frame as the writer emits it: header {magic, flags, seq_nr, size} + payload.
Frame(seq, payload, eos, incomplete) ==
    [magic_ok |-> TRUE, seq_nr |-> seq, size |-> Len(payload),
     payload |-> payload, end_of_stream |-> eos, incomplete |-> incomplete]

\* The full frames the writer flushes while data is written: frame k (k = 0..)
\* carries bytes k*PayloadLen+1 .. (k+1)*PayloadLen and sequence number k.
FullFrames(data) ==
    [k \in 1..(Len(data) \div PayloadLen) |->
        Frame(k - 1, SubSeq(data, (k - 1) * PayloadLen + 1, k * PayloadLen), FALSE, FALSE)]

\* The bytes still in the writer's buffer after the full frames were flushed.
Remainder(data) ==
    SubSeq(data, (Len(data) \div PayloadLen) * PayloadLen + 1, Len(data))

\* BlockedWriter: write_all(data), then finish(incomplete) unless fin = "none".
\* finish emits the buffered rest (possibly empty) in a frame with END_OF_STREAM.
\* Without finish, the buffered rest is never flushed.
BlockedWriter(data, fin) ==
    IF fin = "none"
    THEN FullFrames(data)
    ELSE Append(FullFrames(data),
                Frame(Len(data) \div PayloadLen, Remainder(data), TRUE, fin = "incomplete"))

\* Media that were not (only) produced by the writer: one anomaly at frame k.
Corrupt(frames, kind, k) ==
    CASE kind = "none"     -> frames
      [] kind = "magic"    -> [frames EXCEPT ![k].magic_ok = FALSE]
      [] kind = "seq"      -> [frames EXCEPT ![k].seq_nr = @ + 1]
      [] kind = "zero"     -> [frames EXCEPT ![k].size = 0, ![k].end_of_stream = FALSE]
      [] kind = "oversize" -> [frames EXCEPT ![k].size = PayloadLen + 1]
      [] kind = "trailing" -> Append(frames, Frame(Len(frames), <<0>>, FALSE, FALSE))

CorruptKinds == {"magic", "seq", "zero", "oversize"}

\* BlockRead::read_block of the drive: the next frame, or the file mark.
\* A read after the file mark was reported is an error of the drive.
DriveRead(blocks, pos, eof) ==
    IF pos < Len(blocks)
    THEN [kind |-> "block", frame |-> blocks[pos + 1], pos |-> pos + 1, eof |-> eof]
    ELSE IF ~eof
    THEN [kind |-> "EndOfFile", frame |-> Frame(0, <<>>, FALSE, FALSE), pos |-> pos, eof |-> TRUE]
    ELSE [kind |-> "Error", frame |-> Frame(0, <<>>, FALSE, FALSE), pos |-> pos, eof |-> eof]


---------------------------------------------------------------------------
(***************************************************************************)
(* TAPE: BlockedReader                                                     *)
(***************************************************************************)

Result(ok, len, err) == [ok |-> ok, len |-> len, err |-> err]

\* BlockedReader::check_buffer: magic, sequence number, payload size.
check_buffer_any_seq(buffer, seq_nr) ==
    IF ~buffer.magic_ok THEN Result(FALSE, 0, "wrong magic number")
    ELSE IF buffer.size > PayloadLen THEN Result(FALSE, 0, "wrong payload size")
    ELSE IF buffer.size = 0 /\ ~buffer.end_of_stream THEN Result(FALSE, 0, "zero payload size")
    ELSE Result(TRUE, buffer.size, "")

check_buffer(buffer, seq_nr) ==
    IF ~buffer.magic_ok THEN Result(FALSE, 0, "wrong magic number")
    ELSE IF seq_nr # buffer.seq_nr THEN Result(FALSE, 0, "wrong sequence number")
    ELSE IF buffer.size > PayloadLen THEN Result(FALSE, 0, "wrong payload size")
    ELSE IF buffer.size = 0 /\ ~buffer.end_of_stream THEN Result(FALSE, 0, "zero payload size")
    ELSE Result(TRUE, buffer.size, "")

\* BlockedReader::consume_eof_marker: the next item of the medium must be the
\* file mark. dr is what the drive returned for the small test read.
consume_eof_marker(dr) ==
    CASE dr.kind = "block"     -> Result(FALSE, 0, "block after end marker")
      [] dr.kind = "EndOfFile" -> Result(TRUE, 0, "")
      [] OTHER                 -> Result(FALSE, 0, "io error")

\* BlockedReader::read_block_frame: an error of the drive (EndOfFile,
\* EndOfStream, Error) is handed on as it is.
read_block_frame_any_error(dr) ==
    IF dr.kind = "block" THEN Result(TRUE, 0, "") ELSE Result(FALSE, 0, "Error")

read_block_frame(dr) ==
    IF dr.kind = "block" THEN Result(TRUE, 0, "") ELSE Result(FALSE, 0, dr.kind)

\* BlockedReader::open: reads and checks the first frame (sequence number 0).
\* Yields the reader (or NoReader), the drive position and the result.
open(blocks) ==
    LET d1 == DriveRead(blocks, 0, FALSE)
        chk == check_buffer(d1.frame, 0)
        d2 == DriveRead(blocks, d1.pos, d1.eof)
        eofchk == consume_eof_marker(d2)
        mk(eod) == [open |-> TRUE, buffer |-> d1.frame, seq_nr |-> 1,
                    found_end_marker |-> d1.frame.end_of_stream,
                    incomplete |-> (d1.frame.end_of_stream /\ d1.frame.incomplete),
                    got_eod |-> eod, read_error |-> FALSE, read_pos |-> 0]
    IN  IF d1.kind # "block"
        THEN [rd |-> NoReader, pos |-> d1.pos, eof |-> d1.eof,
              res |-> read_block_frame(d1)]
        ELSE IF ~chk.ok
        THEN [rd |-> NoReader, pos |-> d1.pos, eof |-> d1.eof, res |-> chk]
        ELSE IF ~d1.frame.end_of_stream
        THEN [rd |-> mk(FALSE), pos |-> d1.pos, eof |-> d1.eof, res |-> Result(TRUE, 0, "")]
        ELSE IF ~eofchk.ok
        THEN [rd |-> NoReader, pos |-> d2.pos, eof |-> d2.eof, res |-> eofchk]
        ELSE [rd |-> mk(TRUE), pos |-> d2.pos, eof |-> d2.eof, res |-> Result(TRUE, 0, "")]

\* BlockedReader::read_block at the file mark: a stream that ends without
\* END_OF_STREAM is an error when the caller asks for the check.
end_marker_missing_ignored(found_end_marker, check_end_marker) == FALSE
end_marker_missing_unasked(found_end_marker, check_end_marker) ==
    ~found_end_marker
end_marker_missing(found_end_marker, check_end_marker) ==
    ~found_end_marker /\ check_end_marker

\* BlockedReader::read_block: refill the buffer with the next frame.
\* Every assignment the code makes before an error return is kept.
read_block(rd, blocks, pos, eof, check_end_marker) ==
    LET d1 == DriveRead(blocks, pos, eof)
        chk == check_buffer(d1.frame, rd.seq_nr)
        d2 == DriveRead(blocks, d1.pos, d1.eof)
        eofchk == consume_eof_marker(d2)
        got == [rd EXCEPT !.buffer = d1.frame]
        acc == [got EXCEPT !.seq_nr = @ + 1]
        marked == [acc EXCEPT !.found_end_marker = TRUE,
                              !.incomplete = d1.frame.incomplete]
    IN  CASE d1.kind = "EndOfFile" ->
               [rd |-> [rd EXCEPT !.got_eod = TRUE, !.read_pos = PayloadLen],
                pos |-> d1.pos, eof |-> d1.eof,
                res |-> IF end_marker_missing(rd.found_end_marker, check_end_marker)
                        THEN Result(FALSE, 0, "stream without end marker")
                        ELSE Result(TRUE, 0, "")]
          [] d1.kind = "Error" ->
               [rd |-> rd, pos |-> d1.pos, eof |-> d1.eof, res |-> Result(FALSE, 0, "io error")]
          [] OTHER ->
               IF ~chk.ok
               THEN [rd |-> got, pos |-> d1.pos, eof |-> d1.eof, res |-> chk]
               ELSE IF ~d1.frame.end_of_stream
               THEN [rd |-> [acc EXCEPT !.read_pos = 0], pos |-> d1.pos, eof |-> d1.eof,
                     res |-> Result(TRUE, chk.len, "")]
               ELSE IF ~eofchk.ok
               THEN [rd |-> marked, pos |-> d2.pos, eof |-> d2.eof, res |-> eofchk]
               ELSE [rd |-> [marked EXCEPT !.got_eod = TRUE, !.read_pos = 0],
                     pos |-> d2.pos, eof |-> d2.eof, res |-> Result(TRUE, chk.len, "")]

\* read(): bytes of the current frame that were not delivered yet
\* (buffer.size() - read_pos, as a signed number).
RestNoPos(rd) == rd.buffer.size
Rest(rd) == rd.buffer.size - rd.read_pos

\* read(): number of bytes copied into a caller buffer of n bytes.
CopyLenRest(n, rest) == rest
CopyLen(n, rest) == IF n < rest THEN n ELSE rest

\* The payload bytes read() copies: payload[read_pos .. read_pos + copy_len).
\* Bytes of the block beyond the frame's own data are written as 0.
PayloadAt(buffer, i) == IF i <= Len(buffer.payload) THEN buffer.payload[i] ELSE 0
Copied(rd, copy_len) == [i \in 1..copy_len |-> PayloadAt(rd.buffer, rd.read_pos + i)]

\* BlockedReader::read, the test of read_error at the start of the call.
poisoned_never(rd) == FALSE
poisoned(rd) == rd.read_error

\* BlockedReader::read with a caller buffer of n bytes: the reader after the
\* call, the drive position, the result and the bytes delivered.
read(rd, blocks, pos, eof, n) ==
    LET refill == Rest(rd) <= 0 /\ ~rd.got_eod
        rb == read_block(rd, blocks, pos, eof, TRUE)
        rd1 == IF refill THEN rb.rd ELSE rd
        rest == IF refill THEN rb.res.len ELSE Rest(rd)
        copy_len == CopyLen(n, rest)
    IN  IF poisoned(rd)
        THEN [rd |-> rd, pos |-> pos, eof |-> eof,
              res |-> Result(FALSE, 0, "read after error"), bytes |-> <<>>]
        ELSE IF refill /\ ~rb.res.ok
        THEN [rd |-> [rb.rd EXCEPT !.read_error = TRUE], pos |-> rb.pos, eof |-> rb.eof,
              res |-> rb.res, bytes |-> <<>>]
        ELSE IF rest <= 0
        THEN [rd |-> rd1, pos |-> IF refill THEN rb.pos ELSE pos,
              eof |-> IF refill THEN rb.eof ELSE eof,
              res |-> Result(TRUE, 0, ""), bytes |-> <<>>]
        ELSE [rd |-> [rd1 EXCEPT !.read_pos = @ + copy_len],
              pos |-> IF refill THEN rb.pos ELSE pos,
              eof |-> IF refill THEN rb.eof ELSE eof,
              res |-> Result(TRUE, copy_len, ""), bytes |-> Copied(rd1, copy_len)]

\* BlockedReader::skip_data: count the undelivered rest of the current frame,
\* then read frames (without end marker enforcement) until EOD. st carries the
\* loop state [rd, pos, eof, bytes]; the loop runs at most once per frame.
RECURSIVE skip_loop(_, _, _)
skip_loop(st, blocks, fuel) ==
    LET rb == read_block(st.rd, blocks, st.pos, st.eof, FALSE)
    IN  IF st.rd.got_eod \/ fuel = 0
        THEN [rd |-> st.rd, pos |-> st.pos, eof |-> st.eof,
              res |-> Result(TRUE, st.bytes, "")]
        ELSE IF ~rb.res.ok
        THEN [rd |-> rb.rd, pos |-> rb.pos, eof |-> rb.eof, res |-> rb.res]
        ELSE skip_loop([rd |-> rb.rd, pos |-> rb.pos, eof |-> rb.eof,
                        bytes |-> st.bytes + rb.res.len], blocks, fuel - 1)

skip_data(rd, blocks, pos, eof) ==
    skip_loop([rd |-> rd, pos |-> pos, eof |-> eof,
               bytes |-> IF Rest(rd) > 0 THEN Rest(rd) ELSE 0],
              blocks, Len(blocks) + 2)

\* TapeRead::has_end_marker and TapeRead::is_incomplete (pure queries).
has_end_marker(rd) ==
    IF ~rd.got_eod THEN [ok |-> FALSE, val |-> FALSE]
    ELSE [ok |-> TRUE, val |-> rd.found_end_marker]

is_incomplete_unchecked(rd) == [ok |-> TRUE, val |-> rd.incomplete]
is_incomplete(rd) ==
    IF ~rd.got_eod \/ ~rd.found_end_marker THEN [ok |-> FALSE, val |-> FALSE]
    ELSE [ok |-> TRUE, val |-> rd.incomplete]

---------------------------------------------------------------------------
(***************************************************************************)
(* TAPE: state machine                                                     *)
(***************************************************************************)

AllData == SeqsUpTo(Bytes, MaxDataLen)

NoCall == [op |-> "none", ok |-> TRUE, len |-> 0, err |-> ""]
NoQuery == [op |-> "none", ok |-> FALSE, val |-> FALSE]
NoPre == [rd |-> NoReader, n |-> 0, failed |-> FALSE, out |-> <<>>, pos |-> 0]

Call(op, res) == [op |-> op, ok |-> res.ok, len |-> res.len, err |-> res.err]

\* The media a reader is opened on: what the writer produced for some data,
\* finished or not, possibly with one anomaly.
TapeInputs ==
    { [data |-> d, fin |-> f, corrupt |-> "none", at |-> 0] :
        d \in AllData, f \in {"none", "complete", "incomplete"} }
    \cup
    { [data |-> d, fin |-> f, corrupt |-> "trailing", at |-> 0] :
        d \in AllData, f \in {"complete", "incomplete"} }
    \cup
    { in \in [data : AllData, fin : {"none", "complete", "incomplete"},
              corrupt : CorruptKinds, at : 1..(MaxDataLen \div PayloadLen + 1)] :
        in.at <= Len(BlockedWriter(in.data, in.fin)) }

TapeInit ==
    /\ t_in \in TapeInputs
    /\ tape = Corrupt(BlockedWriter(t_in.data, t_in.fin), t_in.corrupt, t_in.at)
    /\ tape_pos = 0
    /\ tape_eof = FALSE
    /\ reader = NoReader
    /\ t_out = <<>>
    /\ t_last = NoCall
    /\ t_skipped = FALSE
    /\ t_pre = NoPre
    /\ t_failed = FALSE
    /\ t_query = NoQuery

TapeIdle ==
    /\ t_in = <<>>
    /\ tape = <<>>
    /\ tape_pos = 0
    /\ tape_eof = FALSE
    /\ reader = <<>>
    /\ t_out = <<>>
    /\ t_last = <<>>
    /\ t_skipped = FALSE
    /\ t_pre = <<>>
    /\ t_failed = FALSE
    /\ t_query = <<>>

Open ==
    /\ TapeFrame
    /\ t_last.op = "none"
    /\ LET r == open(tape)
       IN  /\ reader' = r.rd
           /\ tape_pos' = r.pos
           /\ tape_eof' = r.eof
           /\ t_last' = Call("open", r.res)
    /\ t_query' = NoQuery
    /\ UNCHANGED <<tape, t_in, t_out, t_skipped, t_pre, t_failed>>

Read(n) ==
    /\ TapeFrame
    /\ reader.open
    /\ LET r == read(reader, tape, tape_pos, tape_eof, n)
       IN  /\ reader' = r.rd
           /\ tape_pos' = r.pos
           /\ tape_eof' = r.eof
           /\ t_out' = t_out \o r.bytes
           /\ t_last' = Call("read", r.res)
           /\ t_failed' = (t_failed \/ ~r.res.ok)
    /\ t_pre' = [rd |-> reader, n |-> n, failed |-> t_failed, out |-> t_out,
                 pos |-> tape_pos]
    /\ t_query' = NoQuery
    /\ UNCHANGED <<tape, t_in, t_skipped>>

SkipData ==
    /\ TapeFrame
    /\ reader.open
    /\ LET r == skip_data(reader, tape, tape_pos, tape_eof)
       IN  /\ reader' = r.rd
           /\ tape_pos' = r.pos
           /\ tape_eof' = r.eof
           /\ t_last' = Call("skip_data", r.res)
    /\ t_skipped' = TRUE
    /\ t_pre' = [rd |-> reader, n |-> 0, failed |-> t_failed, out |-> t_out,
                 pos |-> tape_pos]
    /\ t_query' = NoQuery
    /\ UNCHANGED <<tape, t_in, t_out, t_failed>>

\* TapeRead::has_end_marker and TapeRead::is_incomplete on the reader: they
\* change nothing; the answer is recorded.
HasEndMarker ==
    /\ TapeFrame
    /\ reader.open
    /\ t_query' = [op |-> "has_end_marker", ok |-> has_end_marker(reader).ok,
                   val |-> has_end_marker(reader).val]
    /\ UNCHANGED <<tape, tape_pos, tape_eof, reader, t_in, t_out, t_last, t_skipped,
                   t_pre, t_failed>>

IsIncomplete ==
    /\ TapeFrame
    /\ reader.open
    /\ t_query' = [op |-> "is_incomplete", ok |-> is_incomplete(reader).ok,
                   val |-> is_incomplete(reader).val]
    /\ UNCHANGED <<tape, tape_pos, tape_eof, reader, t_in, t_out, t_last, t_skipped,
                   t_pre, t_failed>>

TapeNext ==
    \/ Open
    \/ \E n \in 1..MaxBufLen : Read(n)
    \/ SkipData
    \/ HasEndMarker
    \/ IsIncomplete

---------------------------------------------------------------------------
(***************************************************************************)
(* SNAPSHOTS: directories, protection marker, BackupDir::destroy           *)
(***************************************************************************)

\* number of snapshots of the group (their timestamps are 1..MaxSnaps)
MaxSnaps == 2

Snapshots == 1..MaxSnaps

MANIFEST_BLOB_NAME == "index.json.blob"
PROTECTED_NAME == ".protected"

FileNames == {MANIFEST_BLOB_NAME, PROTECTED_NAME}

NoDir == [exists |-> FALSE, files |-> {}]

\* BackupDir::is_protected: the file <snapshot>/.protected exists.
is_protected_never(snap) == FALSE
is_protected(snap) == snap.exists /\ PROTECTED_NAME \in snap.files

\* BackupDir::destroy, the protection test: a protected snapshot is refused
\* whatever the force flag.
destroy_refuses_unless_forced(snap, force) == is_protected(snap) /\ ~force
destroy_refuses(snap, force) == is_protected(snap)

\* lock_dir_noblock on the snapshot directory: fails when the directory
\* cannot be opened or another process holds the flock.
lock_dir_noblock_any(snap, lock) == snap.exists
lock_dir_noblock(snap, lock) == snap.exists /\ lock = "free"

\* A guard is dropped when the call returns: the flock it holds is released.
drop_guard_never(lock) == lock
drop_guard(lock) == IF lock = "self" THEN "free" ELSE lock

\* BackupDir::destroy(force). waited: whether a manifest lock held by another
\* process is released within the 5 s timeout; io_ok: whether remove_dir_all
\* succeeds; kept: the files left behind when it fails.
\* Yields the result, the directory afterwards and the state of the snapshot
\* lock and of the manifest lock once the call has returned.
destroy(snap, lock, mlock, force, waited, io_ok, kept) ==
    IF ~force /\ ~lock_dir_noblock(snap, lock)
    THEN [ok |-> FALSE, err |-> "in use", dir |-> snap, lock |-> lock, mlock |-> mlock]
    ELSE LET lock1 == IF force THEN lock ELSE drop_guard("self")
         IN  IF ~force /\ mlock = "other" /\ ~waited
             THEN [ok |-> FALSE, err |-> "manifest lock timeout", dir |-> snap,
                   lock |-> lock1, mlock |-> mlock]
             ELSE LET mlock1 == IF force THEN mlock ELSE drop_guard("self")
                  IN  IF destroy_refuses(snap, force)
                      THEN [ok |-> FALSE, err |-> "protected", dir |-> snap,
                            lock |-> lock1, mlock |-> mlock1]
                      ELSE IF ~snap.exists
                      THEN [ok |-> FALSE, err |-> "remove failed", dir |-> snap,
                            lock |-> lock1, mlock |-> mlock1]
                      ELSE IF ~io_ok
                      THEN [ok |-> FALSE, err |-> "remove failed",
                            dir |-> [exists |-> TRUE, files |-> kept],
                            lock |-> lock1, mlock |-> mlock1]
                      ELSE [ok |-> TRUE, err |-> "", dir |-> NoDir,
                            lock |-> lock1, mlock |-> mlock1]

NoDestroy ==
    [op |-> "none", force |-> FALSE, ok |-> TRUE, err |-> "",
     before |-> NoDir, after |-> NoDir, lock |-> "free", mlock |-> "free",
     waited |-> TRUE]

SnapInit ==
    /\ snaps = [s \in Snapshots |-> NoDir]
    /\ snap_lock = [s \in Snapshots |-> "free"]
    /\ manifest_lock = [s \in Snapshots |-> "free"]
    /\ s_last = NoDestroy

SnapIdle ==
    /\ snaps = <<>>
    /\ snap_lock = <<>>
    /\ manifest_lock = <<>>
    /\ s_last = <<>>

\* A backup creates the snapshot directory and holds its lock.
BackupStart(s) ==
    /\ SnapFrame
    /\ ~snaps[s].exists
    /\ snaps' = [snaps EXCEPT ![s] = [exists |-> TRUE, files |-> {}]]
    /\ snap_lock' = [snap_lock EXCEPT ![s] = "other"]
    /\ UNCHANGED <<manifest_lock, s_last>>

\* The running backup writes the manifest: the snapshot is finished.
BackupFinish(s) ==
    /\ SnapFrame
    /\ snaps[s].exists /\ snap_lock[s] = "other"
    /\ MANIFEST_BLOB_NAME \notin snaps[s].files
    /\ snaps' = [snaps EXCEPT ![s].files = @ \cup {MANIFEST_BLOB_NAME}]
    /\ snap_lock' = [snap_lock EXCEPT ![s] = "free"]
    /\ UNCHANGED <<manifest_lock, s_last>>

\* Another process (verification, a reader, ...) takes the snapshot lock.
OtherLock(s) ==
    /\ SnapFrame
    /\ snaps[s].exists /\ snap_lock[s] = "free"
    /\ snap_lock' = [snap_lock EXCEPT ![s] = "other"]
    /\ UNCHANGED <<snaps, manifest_lock, s_last>>

\* The holder of the snapshot lock exits (also an aborted backup).
OtherUnlock(s) ==
    /\ SnapFrame
    /\ snap_lock[s] = "other"
    /\ snap_lock' = [snap_lock EXCEPT ![s] = "free"]
    /\ UNCHANGED <<snaps, manifest_lock, s_last>>

\* Another process takes or releases the manifest lock (lock_manifest).
OtherLockManifest(s) ==
    /\ SnapFrame
    /\ manifest_lock[s] = "free"
    /\ manifest_lock' = [manifest_lock EXCEPT ![s] = "other"]
    /\ UNCHANGED <<snaps, snap_lock, s_last>>

OtherUnlockManifest(s) ==
    /\ SnapFrame
    /\ manifest_lock[s] = "other"
    /\ manifest_lock' = [manifest_lock EXCEPT ![s] = "free"]
    /\ UNCHANGED <<snaps, snap_lock, s_last>>

\* The protection marker is created or removed.
SetProtected(s, on) ==
    /\ SnapFrame
    /\ snaps[s].exists
    /\ snaps' = [snaps EXCEPT ![s].files =
                    IF on THEN @ \cup {PROTECTED_NAME} ELSE @ \ {PROTECTED_NAME}]
    /\ snaps' # snaps
    /\ UNCHANGED <<snap_lock, manifest_lock, s_last>>

\* BackupDir::destroy(force) on snapshot s. The guards are dropped when the
\* call returns, so no lock of the caller outlives the action.
Destroy(s, force) ==
    /\ SnapFrame
    /\ \E waited \in (IF ~force /\ manifest_lock[s] = "other" THEN BOOLEAN ELSE {TRUE}) :
       \E io_ok \in (IF destroy(snaps[s], snap_lock[s], manifest_lock[s], force,
                                 waited, TRUE, {}).ok THEN BOOLEAN ELSE {TRUE}) :
       \E kept \in (IF io_ok THEN {{}} ELSE SUBSET snaps[s].files) :
           LET r == destroy(snaps[s], snap_lock[s], manifest_lock[s], force, waited, io_ok, kept)
           IN  /\ snaps' = [snaps EXCEPT ![s] = r.dir]
               /\ manifest_lock' = [manifest_lock EXCEPT ![s] = r.mlock]
               /\ snap_lock' = [snap_lock EXCEPT ![s] = r.lock]
               /\ s_last' = [op |-> "destroy", force |-> force, ok |-> r.ok, err |-> r.err,
                             before |-> snaps[s], after |-> r.dir,
                             lock |-> snap_lock[s], mlock |-> manifest_lock[s],
                             waited |-> waited]

SnapNext ==
    \/ \E s \in Snapshots : BackupStart(s)
    \/ \E s \in Snapshots : BackupFinish(s)
    \/ \E s \in Snapshots : OtherLock(s)
    \/ \E s \in Snapshots : OtherUnlock(s)
    \/ \E s \in Snapshots : OtherLockManifest(s)
    \/ \E s \in Snapshots : OtherUnlockManifest(s)
    \/ \E s \in Snapshots, on \in BOOLEAN : SetProtected(s, on)
    \/ \E s \in Snapshots, force \in BOOLEAN : Destroy(s, force)

---------------------------------------------------------------------------
(***************************************************************************)
(* CHUNK STORE, BACKUP WRITERS, GARBAGE COLLECTION                         *)
(* The chunk store and the collector are not among the source files; this  *)
(* machine follows the design of spec sections 4.A, 4.B and 4.F.           *)
(***************************************************************************)

\* number of distinct digests
MaxDigests == 2
\* number of concurrent backup writers
MaxWriters == 1
\* last clock value
MaxTime == 4

\* grace_window (1 day + 5 minutes in the design), in clock units
GraceWindow == 2

Digests == 1..MaxDigests
Writers == 1..MaxWriters

NoChunk == [present |-> FALSE, atime |-> 0]

\* touch(digest): set atime to now; a no-op if the file is missing.
touch(store, d, now) ==
    IF store[d].present THEN [store EXCEPT ![d].atime = now] ELSE store

RECURSIVE touch_all(_, _, _)
touch_all(store, ds, now) ==
    IF ds = {} THEN store
    ELSE LET d == CHOOSE x \in ds : TRUE
         IN  touch_all(touch(store, d, now), ds \ {d}, now)

\* insert(digest, bytes) by a writer, followed by the touch its pre-existence
\* check results in: a present chunk is touched, an absent one is created.
insert_or_touch(store, d, now) ==
    [store EXCEPT ![d] = [present |-> TRUE, atime |-> now]]

\* The sweep's predicate: atime < t_start - grace_window.
is_old(chunk, t_start) == chunk.present /\ chunk.atime + GraceWindow < t_start

NoWriter == [pc |-> "idle", refs |-> {}, found |-> {}, obs |-> 0,
             index |-> {}, fin |-> 0]

GcIdleState == [pc |-> "idle", t_start |-> 0, visited |-> {}, swept |-> {}, victim |-> 0]

GcInit ==
    /\ gc_now = 0
    /\ chunks \in [Digests -> {NoChunk, [present |-> TRUE, atime |-> 0]}]
    /\ writers = [w \in Writers |-> NoWriter]
    /\ gc = GcIdleState

GcIdle ==
    /\ gc_now = 0
    /\ chunks = <<>>
    /\ writers = <<>>
    /\ gc = <<>>

Tick ==
    /\ GcFrame
    /\ gc_now < MaxTime
    /\ gc_now' = gc_now + 1
    /\ UNCHANGED <<chunks, writers, gc>>

\* A backup writer references digest d: it inserts the chunk, or finds it
\* present and touches it. obs is the time of its first such observation,
\* found the digests it found present.
WriterRef(w, d) ==
    /\ GcFrame
    /\ writers[w].pc \in {"idle", "writing"}
    /\ d \notin writers[w].refs
    /\ chunks' = insert_or_touch(chunks, d, gc_now)
    /\ writers' = [writers EXCEPT ![w] =
            [@ EXCEPT !.pc = "writing",
                      !.refs = @ \cup {d},
                      !.found = IF chunks[d].present THEN @ \cup {d} ELSE @,
                      !.obs = IF writers[w].refs = {} THEN gc_now ELSE @]]
    /\ UNCHANGED <<gc_now, gc>>

\* The index file is finalized and renamed into place: from now on the mark
\* phase finds it.
WriterCloseIndex(w) ==
    /\ GcFrame
    /\ writers[w].pc = "writing"
    /\ writers' = [writers EXCEPT ![w].pc = "closed", ![w].index = writers[w].refs]
    /\ UNCHANGED <<gc_now, chunks, gc>>

\* Backup completion: the writer touches every chunk it references and
\* writes the manifest; the snapshot is finished.
WriterFinish(w) ==
    /\ GcFrame
    /\ writers[w].pc = "closed"
    /\ chunks' = touch_all(chunks, writers[w].refs, gc_now)
    /\ writers' = [writers EXCEPT ![w].pc = "finished", ![w].fin = gc_now]
    /\ UNCHANGED <<gc_now, gc>>

\* GC takes the GC mutex and records t_start.
GcStart ==
    /\ GcFrame
    /\ gc.pc = "idle"
    /\ gc' = [pc |-> "mark", t_start |-> gc_now, visited |-> {}, swept |-> {}, victim |-> 0]
    /\ UNCHANGED <<gc_now, chunks, writers>>

\* Mark, one snapshot: touch every digest of its index files. A missing chunk
\* aborts the collection (dangling_reference).
GcMark(w) ==
    /\ GcFrame
    /\ gc.pc = "mark"
    /\ w \notin gc.visited
    /\ IF \E d \in writers[w].index : ~chunks[d].present
       THEN /\ gc' = GcIdleState
            /\ UNCHANGED chunks
       ELSE /\ chunks' = touch_all(chunks, writers[w].index, gc_now)
            /\ gc' = [gc EXCEPT !.visited = @ \cup {w},
                                !.pc = IF gc.visited \cup {w} = Writers THEN "sweep" ELSE "mark"]
    /\ UNCHANGED <<gc_now, writers>>

\* Sweep, one chunk: stat. An old chunk becomes the victim of the unlink that
\* follows; any other chunk is kept.
GcStat(d) ==
    /\ GcFrame
    /\ gc.pc = "sweep"
    /\ gc.victim = 0
    /\ d \notin gc.swept
    /\ gc' = IF is_old(chunks[d], gc.t_start)
             THEN [gc EXCEPT !.victim = d]
             ELSE [gc EXCEPT !.swept = @ \cup {d}]
    /\ UNCHANGED <<gc_now, chunks, writers>>

\* Sweep, one chunk: unlink the file stat found old.
GcUnlink ==
    /\ GcFrame
    /\ gc.pc = "sweep"
    /\ gc.victim # 0
    /\ chunks' = [chunks EXCEPT ![gc.victim] = NoChunk]
    /\ gc' = [gc EXCEPT !.victim = 0, !.swept = @ \cup {gc.victim}]
    /\ UNCHANGED <<gc_now, writers>>

\* The sweep has visited every chunk: GC ends and releases the mutex.
GcEnd ==
    /\ GcFrame
    /\ gc.pc = "sweep"
    /\ gc.victim = 0
    /\ gc.swept = Digests
    /\ gc' = GcIdleState
    /\ UNCHANGED <<gc_now, chunks, writers>>

GcNext ==
    \/ Tick
    \/ \E w \in Writers, d \in Digests : WriterRef(w, d)
    \/ \E w \in Writers : WriterCloseIndex(w)
    \/ \E w \in Writers : WriterFinish(w)
    \/ GcStart
    \/ \E w \in Writers : GcMark(w)
    \/ \E d \in Digests : GcStat(d)
    \/ GcUnlink
    \/ GcEnd

---------------------------------------------------------------------------
(***************************************************************************)
(* RRD CACHE: journal, in-RAM map, on-disk files                           *)
(* An RRD is kept as its last_update and the sequence of the updates that  *)
(* were applied to it: every slot of the round-robin arrays is a function  *)
(* of that sequence. Clock readings are whole numbers and strictly         *)
(* increase from one update_value call to the next.                        *)
(***************************************************************************)

\* number of update_value calls
MaxUpdates == 3
\* number of calls that meet an I/O error
MaxFaults == 1
\* apply_interval of the cache (constructor parameter)
ApplyInterval == 1

\* the rel_paths that are updated
Paths == {"host/cpu", "host/mem"}
\* the values that are recorded (a value is payload only)
Values == {1}

NoRRD == [last_update |-> -1, data |-> <<>>]

\* RRD::new: no update applied, last_update = 0.
RRDNew == [last_update |-> 0, data |-> <<>>]

\* RRD::update(time, value).
RRDUpdate(rrd, time, value) ==
    [last_update |-> time, data |-> Append(rrd.data, <<time, value>>)]

\* RRD::load(path), falling back to RRD::new when the file does not exist.
LoadOrNew(files, path) == IF files[path] = NoRRD THEN RRDNew ELSE files[path]

JournalEntry(time, value, path) == [time |-> time, value |-> value, rel_path |-> path]

\* I/O errors a call can meet. A flush: the journal cannot be opened; the
\* directory of a path cannot be created; the files of some paths cannot be
\* saved; ftruncate fails. An update: the append fails; the directory of the
\* path cannot be created.
NoFault == [kind |-> "none", paths |-> {}]

FlushFaults ==
    {NoFault, [kind |-> "open", paths |-> {}], [kind |-> "truncate", paths |-> {}]}
    \cup { [kind |-> k, paths |-> ps] : k \in {"mkdir", "save"}, ps \in (SUBSET Paths) \ {{}} }

UpdateFaults == {"none", "append", "mkdir"}

\* One update_value call meets at most one I/O error.
CallFaults(due) ==
    { <<ff, "none">> : ff \in (IF due THEN FlushFaults ELSE {NoFault}) }
    \cup { <<NoFault, uf>> : uf \in UpdateFaults }

\* apply_journal_locked, the replay guard: an entry is applied only if its
\* time is greater than the RRD's last_update (as first seen in this replay).
entry_is_new_or_same(time, last_update) == time >= last_update
entry_is_new_always(time, last_update) == TRUE
entry_is_new(time, last_update) == time > last_update

\* get_last_update: the last_update of the path's RRD when the replay met
\* the path for the first time (last_update_map).
get_last_update(lum, path, rrd) == IF lum[path] >= 0 THEN lum[path] ELSE rrd.last_update

\* apply_journal_locked, the loop over the journal lines. acc carries the
\* in-RAM map, last_update_map and whether the loop returned an error.
RECURSIVE journal_replay_from(_, _, _, _, _)
journal_replay_from(acc, files, jrnl, i, mkdir_fail) ==
    IF i > Len(jrnl) \/ acc.err THEN acc
    ELSE LET e == jrnl[i]
             known == acc.map[e.rel_path] # NoRRD
             rrd == IF known THEN acc.map[e.rel_path] ELSE LoadOrNew(files, e.rel_path)
             lu == get_last_update(acc.lum, e.rel_path, rrd)
             rrd1 == IF entry_is_new(e.time, lu) THEN RRDUpdate(rrd, e.time, e.value) ELSE rrd
         IN  IF ~known /\ e.rel_path \in mkdir_fail
             THEN [acc EXCEPT !.err = TRUE]
             ELSE journal_replay_from(
                      [map |-> [acc.map EXCEPT ![e.rel_path] = rrd1],
                       lum |-> [acc.lum EXCEPT ![e.rel_path] = lu],
                       err |-> FALSE],
                      files, jrnl, i + 1, mkdir_fail)

journal_replay(map, files, jrnl, mkdir_fail) ==
    journal_replay_from([map |-> map, lum |-> [p \in Paths |-> -1], err |-> FALSE],
                        files, jrnl, 1, mkdir_fail)

\* apply_journal_locked, "save all RRDs": every RRD of the map is written to
\* its file unless the save of that path fails.
save_all(map, files, save_fail) ==
    [p \in Paths |-> IF map[p] # NoRRD /\ p \notin save_fail THEN map[p] ELSE files[p]]

save_errors(map, save_fail) == Cardinality({p \in Paths : map[p] # NoRRD /\ p \in save_fail})

\* apply_journal_locked, "if everything went ok, commit the journal".
commit_always(errors) == TRUE
commit(errors) == errors = 0

\* update_value: the flush is due.
flush_due_always(now, last_flush) == TRUE
flush_due(now, last_flush) == (now - last_flush) > ApplyInterval

\* RRDCache::apply_journal_locked at clock reading now under I/O fault f.
\* st = [map, journal, files, last_flush].
apply_journal_locked(st, now, f) ==
    LET st0 == [st EXCEPT !.last_flush = now]
        rp == journal_replay(st.map, st.files, st.journal,
                             IF f.kind = "mkdir" THEN f.paths ELSE {})
        sfail == IF f.kind = "save" THEN f.paths ELSE {}
        errors == save_errors(rp.map, sfail)
        saved == [st0 EXCEPT !.map = rp.map, !.files = save_all(rp.map, st.files, sfail)]
    IN  IF f.kind = "open"
        THEN [st |-> st0, ok |-> FALSE, replayed |-> FALSE, saving |-> FALSE,
              errors |-> 0, truncated |-> FALSE]
        ELSE IF rp.err
        THEN [st |-> [st0 EXCEPT !.map = rp.map], ok |-> FALSE, replayed |-> FALSE,
              saving |-> FALSE, errors |-> 0, truncated |-> FALSE]
        ELSE IF ~commit(errors)
        THEN [st |-> saved, ok |-> TRUE, replayed |-> TRUE, saving |-> TRUE,
              errors |-> errors, truncated |-> FALSE]
        ELSE IF f.kind = "truncate"
        THEN [st |-> saved, ok |-> FALSE, replayed |-> TRUE, saving |-> TRUE,
              errors |-> errors, truncated |-> FALSE]
        ELSE [st |-> [saved EXCEPT !.journal = <<>>], ok |-> TRUE, replayed |-> TRUE,
              saving |-> TRUE, errors |-> errors, truncated |-> TRUE]

\* append_journal_entry: write_all of one line; an error leaves the journal
\* as it was.
append_swallow_error(jrnl, entry, write_ok) ==
    [ok |-> TRUE, journal |-> IF write_ok THEN Append(jrnl, entry) ELSE jrnl]
append_journal_entry(jrnl, entry, write_ok) ==
    [ok |-> write_ok, journal |-> IF write_ok THEN Append(jrnl, entry) ELSE jrnl]

NoFlush(st) == [st |-> st, ok |-> TRUE, replayed |-> FALSE, saving |-> FALSE,
                errors |-> 0, truncated |-> FALSE]

\* RRDCache::update_value(rel_path, value) at clock reading now. ff: the I/O
\* fault of the flush (if one runs), uf: the I/O fault of the update itself.
update_value(st, path, value, now, ff, uf) ==
    LET due == flush_due(now, st.last_flush)
        fl == IF due THEN apply_journal_locked(st, now, ff) ELSE NoFlush(st)
        st1 == fl.st
        ap == append_journal_entry(st1.journal, JournalEntry(now, value, path), uf # "append")
        st2 == [st1 EXCEPT !.journal = ap.journal]
        known == st2.map[path] # NoRRD
        rrd == IF known THEN st2.map[path] ELSE LoadOrNew(st2.files, path)
        st3 == [st2 EXCEPT !.map[path] = RRDUpdate(rrd, now, value)]
    IN  IF ~ap.ok
        THEN [st |-> st2, ok |-> FALSE, flushed |-> due, flush |-> fl, applied |-> FALSE]
        ELSE IF ~known /\ uf = "mkdir"
        THEN [st |-> st2, ok |-> FALSE, flushed |-> due, flush |-> fl, applied |-> FALSE]
        ELSE [st |-> st3, ok |-> TRUE, flushed |-> due, flush |-> fl, applied |-> TRUE]

CacheState == [map |-> rrd_map, journal |-> journal, files |-> rrd_files,
               last_flush |-> last_journal_flush]

\* A flush failed: it returned an error, or it could not commit the journal.
FlushFailed(fl) == ~fl.ok \/ (fl.saving /\ ~fl.truncated)

NoCacheCall ==
    [op |-> "none", ok |-> TRUE, now |-> 0, last_flush |-> 0, flushed |-> FALSE,
     flush_ok |-> TRUE, saving |-> FALSE, errors |-> 0, truncated |-> FALSE,
     kept |-> TRUE, empty |-> TRUE, applied |-> FALSE, appended |-> FALSE, map_after_flush |-> TRUE,
     prev_failed |-> FALSE, failed |-> FALSE, fault |-> "none"]

\* RRDCache::new on an empty directory: empty map, empty journal,
\* last_journal_flush = 0.0. The clock is far beyond apply_interval.
CacheInit ==
    /\ c_now = ApplyInterval + 1
    /\ rrd_map = [p \in Paths |-> NoRRD]
    /\ journal = <<>>
    /\ rrd_files = [p \in Paths |-> NoRRD]
    /\ last_journal_flush = 0
    /\ c_logged = [p \in Paths |-> <<>>]
    /\ c_faulted = FALSE
    /\ c_count = 0
    /\ c_faults = 0
    /\ c_last = NoCacheCall

CacheIdle ==
    /\ c_now = 0
    /\ rrd_map = <<>>
    /\ journal = <<>>
    /\ rrd_files = <<>>
    /\ last_journal_flush = 0
    /\ c_logged = <<>>
    /\ c_faulted = FALSE
    /\ c_count = 0
    /\ c_faults = 0
    /\ c_last = <<>>

UpdateValue(path, value) ==
    /\ CacheFrame
    /\ c_count < MaxUpdates
    /\ \E dt \in 1..(ApplyInterval + 1) :
       \E cf \in CallFaults(flush_due(c_now, last_journal_flush)) :
       \E ff \in {cf[1]}, uf \in {cf[2]} :
       \E r \in {update_value(CacheState, path, value, c_now, ff, uf)} :
              /\ (uf = "mkdir" => rrd_map[path] = NoRRD)
              /\ (cf # <<NoFault, "none">> => c_faults < MaxFaults)
              /\ c_faults' = c_faults + (IF cf # <<NoFault, "none">> THEN 1 ELSE 0)
              /\ rrd_map' = r.st.map
              /\ journal' = r.st.journal
              /\ rrd_files' = r.st.files
              /\ last_journal_flush' = r.st.last_flush
              /\ c_now' = c_now + dt
              /\ c_count' = c_count + 1
              /\ c_logged' = IF Len(r.st.journal) > Len(r.flush.st.journal)
                             THEN [c_logged EXCEPT ![path] = Append(@, <<c_now, value>>)]
                             ELSE c_logged
              /\ c_faulted' = (c_faulted \/ (r.flushed /\ ff.kind \in {"open", "mkdir"}
                                               /\ ~r.flush.ok)
                                         \/ (~r.ok /\ uf = "mkdir"))
              /\ c_last' = [op |-> "update_value", ok |-> r.ok, now |-> c_now,
                            last_flush |-> last_journal_flush, flushed |-> r.flushed,
                            flush_ok |-> r.flush.ok, saving |-> r.flush.saving,
                            errors |-> r.flush.errors, truncated |-> r.flush.truncated,
                            kept |-> (r.flush.st.journal = journal),
                            empty |-> (r.flush.st.journal = <<>>),
                            applied |-> r.applied,
                            appended |-> Len(r.st.journal) > Len(r.flush.st.journal),
                            map_after_flush |-> (r.st.map = r.flush.st.map),
                            prev_failed |-> (c_last.op = "update_value" /\ c_last.failed),
                            failed |-> (r.flushed /\ FlushFailed(r.flush)),
                            fault |-> uf]

\* RRDCache::apply_journal, the public flush.
ApplyJournal ==
    /\ CacheFrame
    /\ \E ff \in FlushFaults :
       \E r \in {apply_journal_locked(CacheState, c_now, ff)} :
              /\ (ff # NoFault => c_faults < MaxFaults)
              /\ c_faults' = c_faults + (IF ff # NoFault THEN 1 ELSE 0)
              /\ rrd_map' = r.st.map
              /\ journal' = r.st.journal
              /\ rrd_files' = r.st.files
              /\ last_journal_flush' = r.st.last_flush
              /\ c_faulted' = (c_faulted \/ (ff.kind \in {"open", "mkdir"} /\ ~r.ok))
              /\ c_last' = [op |-> "apply_journal", ok |-> r.ok, now |-> c_now,
                            last_flush |-> last_journal_flush, flushed |-> TRUE,
                            flush_ok |-> r.ok, saving |-> r.saving,
                            errors |-> r.errors, truncated |-> r.truncated,
                            kept |-> (r.st.journal = journal),
                            empty |-> (r.st.journal = <<>>),
                            applied |-> FALSE, appended |-> FALSE,
                            map_after_flush |-> (r.st.map = rrd_map),
                            prev_failed |-> FALSE, failed |-> FlushFailed(r),
                            fault |-> "none"]
    /\ UNCHANGED <<c_now, c_logged, c_count>>

\* The process dies and is started again (RRDCache::new): RAM is lost, the
\* journal and the RRD files stay. A crash inside a flush, between two saves
\* or between the last save and ftruncate, leaves the same files as a flush
\* whose remaining saves (or whose ftruncate) failed, followed by this crash.
Crash ==
    /\ CacheFrame
    /\ c_last.op # "crash"
    /\ rrd_map' = [p \in Paths |-> NoRRD]
    /\ last_journal_flush' = 0
    /\ c_last' = [NoCacheCall EXCEPT !.op = "crash"]
    /\ UNCHANGED <<c_now, journal, rrd_files, c_logged, c_faulted, c_count, c_faults>>

CacheNext ==
    \/ \E path \in Paths, value \in Values : UpdateValue(path, value)
    \/ ApplyJournal
    \/ Crash

---------------------------------------------------------------------------
(***************************************************************************)
(* BACKUP GROUP: prune_datastore and BackupGroup::destroy                  *)
(* One group with its snapshot directories; a snapshot's number is its     *)
(* backup time. Other processes take and release locks and set or clear    *)
(* protection markers at any time.                                         *)
(***************************************************************************)

\* number of snapshots of the group
MaxGroupSnaps == 2

GroupSnaps == 1..MaxGroupSnaps

FinishedDir == [exists |-> TRUE, files |-> {MANIFEST_BLOB_NAME}]
ProtectedDir == [exists |-> TRUE, files |-> {MANIFEST_BLOB_NAME, PROTECTED_NAME}]

\* proxmox_time::parse_rfc3339 on the name of a snapshot directory: the name
\* n stands for the n-th hour of the epoch.
parse_rfc3339(name) == name * 3600

\* The type scandir reports for a directory entry.
file_type(d) == IF "file_type" \in DOMAIN d THEN d.file_type ELSE "Directory"

\* The orders in which the elements of a set can come.
Perms(S) ==
    {f \in [1..Cardinality(S) -> S] :
        \A i, j \in 1..Cardinality(S) : i # j => f[i] # f[j]}

\* proxmox_sys::fs::scandir over the group directory: its entries that match
\* BACKUP_DATE_REGEX, in any order.
scandir(dirs) ==
    Perms({[name |-> n, file_type |-> file_type(dirs[n])] :
              n \in {m \in DOMAIN dirs : dirs[m].exists}})

\* BackupGroup::list_backups: one BackupInfo per directory, in the order of
\* the scan.
list_backups(dirs, scan) ==
    LET found == SelectSeq(scan, LAMBDA e : e.file_type = "Directory")
    IN [i \in 1..Len(found) |->
            [snap |-> found[i].name,
             time |-> parse_rfc3339(found[i].name),
             files |-> dirs[found[i].name].files,
             protected |-> PROTECTED_NAME \in dirs[found[i].name].files]]

\* BackupInfo::sort_list(list, ascending)
sort_list_unsorted(list, ascending) == list
RECURSIVE sort_list(_, _)
sort_list(list, ascending) ==
    IF list = <<>> THEN <<>>
    ELSE LET x == Head(list)
             rest == sort_list(Tail(list), ascending)
             k == Cardinality({i \in 1..Len(rest) :
                      IF ascending THEN rest[i].time < x.time
                      ELSE rest[i].time > x.time})
         IN SubSeq(rest, 1, k) \o <<x>> \o SubSeq(rest, k + 1, Len(rest))

\* prune_info.reverse()
Unreversed(seq) == seq
Reverse(seq) == [i \in 1..Len(seq) |-> seq[Len(seq) + 1 - i]]

\* compute_prune_info(list, options): sorts the list newest first and gives
\* one mark per snapshot. remove: the snapshots the policy does not keep; any
\* set is allowed, so that what holds of a run holds whatever the policy
\* computes.
compute_prune_info(list, remove) ==
    LET sorted == sort_list(list, FALSE)
    IN [i \in 1..Len(sorted) |->
            [snap |-> sorted[i].snap,
             mark |-> IF sorted[i].snap \in remove THEN "remove" ELSE "keep"]]

\* PruneMark::keep.
mark_keep(mark) == mark # "remove"

\* prune_datastore, the test before remove_backup_dir.
prune_removes_unless_dry(keep_all, mark, dry_run) == ~mark_keep(mark) /\ ~dry_run
prune_removes_in_dry_run(keep_all, mark, dry_run) == ~(keep_all \/ mark_keep(mark))
prune_removes(keep_all, mark, dry_run) == ~(keep_all \/ mark_keep(mark)) /\ ~dry_run

\* prune_datastore, the force argument of remove_backup_dir.
PruneForce == FALSE

\* prune_datastore, after remove_backup_dir returned: an error is logged
\* with task_warn and the loop goes on with the rest of prune_info.
prune_abort_on_error(queue, ok) == IF ok THEN Tail(queue) ELSE <<>>
prune_after_remove(queue, ok) == Tail(queue)

PruneIdle ==
    [pc |-> "idle", dry_run |-> FALSE, keep_all |-> FALSE, queue |-> <<>>,
     listed |-> {}, marked |-> {}, always_prot |-> {}, attempts |-> <<>>]

GdIdle ==
    [pc |-> "idle", todo |-> <<>>, removed_all |-> TRUE, seen_prot |-> {},
     destroyed |-> {}, res |-> "none", err |-> "", failed |-> 0]

GroupInit ==
    /\ g_dir = TRUE
    /\ g_snaps \in [GroupSnaps -> {NoDir, FinishedDir, ProtectedDir}]
    /\ g_lock = [s \in GroupSnaps |-> "free"]
    /\ g_mlock = [s \in GroupSnaps |-> "free"]
    /\ g_glock \in {"free", "other"}
    /\ prune = PruneIdle
    /\ gd = GdIdle

GroupIdle ==
    /\ g_dir = FALSE
    /\ g_snaps = <<>>
    /\ g_lock = <<>>
    /\ g_mlock = <<>>
    /\ g_glock = "free"
    /\ prune = <<>>
    /\ gd = <<>>

\* Other processes are followed where the running operation meets them: at
\* the snapshot it visits next, and everywhere once a group destroy has
\* returned. What they did before is what the initial state is chosen from.
GroupFocus(s) ==
    \/ prune.pc = "run" /\ prune.queue # <<>> /\ Head(prune.queue).snap = s
    \/ gd.pc \in {"check", "destroy"} /\ gd.todo # <<>> /\ Head(gd.todo) = s
    \/ gd.pc = "done"

\* Another process takes or releases the lock of a snapshot directory.
GLock(s) ==
    /\ GroupFrame
    /\ GroupFocus(s)
    /\ g_snaps[s].exists /\ g_lock[s] = "free"
    /\ g_lock' = [g_lock EXCEPT ![s] = "other"]
    /\ UNCHANGED <<g_dir, g_snaps, g_mlock, g_glock, prune, gd>>

GUnlock(s) ==
    /\ GroupFrame
    /\ GroupFocus(s)
    /\ g_lock[s] = "other"
    /\ g_lock' = [g_lock EXCEPT ![s] = "free"]
    /\ UNCHANGED <<g_dir, g_snaps, g_mlock, g_glock, prune, gd>>

\* Another process takes or releases the manifest lock of a snapshot.
GLockManifest(s) ==
    /\ GroupFrame
    /\ GroupFocus(s)
    /\ g_snaps[s].exists /\ g_mlock[s] = "free"
    /\ g_mlock' = [g_mlock EXCEPT ![s] = "other"]
    /\ UNCHANGED <<g_dir, g_snaps, g_lock, g_glock, prune, gd>>

GUnlockManifest(s) ==
    /\ GroupFrame
    /\ GroupFocus(s)
    /\ g_mlock[s] = "other"
    /\ g_mlock' = [g_mlock EXCEPT ![s] = "free"]
    /\ UNCHANGED <<g_dir, g_snaps, g_lock, g_glock, prune, gd>>

\* Another process (a running backup) takes or releases the group lock.
GLockGroup ==
    /\ GroupFrame
    /\ gd.pc # "idle"
    /\ g_dir /\ g_glock = "free"
    /\ g_glock' = "other"
    /\ UNCHANGED <<g_dir, g_snaps, g_lock, g_mlock, prune, gd>>

GUnlockGroup ==
    /\ GroupFrame
    /\ gd.pc # "idle"
    /\ g_glock = "other"
    /\ g_glock' = "free"
    /\ UNCHANGED <<g_dir, g_snaps, g_lock, g_mlock, prune, gd>>

\* The protection marker of a snapshot is created or removed.
GSetProtected(s, on) ==
    /\ GroupFrame
    /\ GroupFocus(s)
    /\ g_snaps[s].exists
    /\ g_snaps' = [g_snaps EXCEPT ![s].files =
                      IF on THEN @ \cup {PROTECTED_NAME} ELSE @ \ {PROTECTED_NAME}]
    /\ g_snaps' # g_snaps
    /\ prune' = IF prune.pc = "run" /\ ~on
                THEN [prune EXCEPT !.always_prot = @ \ {s}] ELSE prune
    /\ UNCHANGED <<g_dir, g_lock, g_mlock, g_glock, gd>>

\* prune_datastore up to the loop over the group: list the snapshots,
\* compute the marks, reverse them (older snapshots first).
PruneStart(dry_run, keep_all, remove) ==
    /\ GroupFrame
    /\ prune.pc = "idle"
    /\ g_dir
    /\ remove \subseteq {s \in GroupSnaps : g_snaps[s].exists}
    /\ \E scan \in scandir(g_snaps) :
       prune' = [pc |-> "run", dry_run |-> dry_run, keep_all |-> keep_all,
                 queue |-> Reverse(compute_prune_info(list_backups(g_snaps, scan), remove)),
                 listed |-> {s \in GroupSnaps : g_snaps[s].exists},
                 marked |-> remove,
                 always_prot |-> {s \in GroupSnaps : PROTECTED_NAME \in g_snaps[s].files},
                 attempts |-> <<>>]
    /\ UNCHANGED <<g_dir, g_snaps, g_lock, g_mlock, g_glock, gd>>

\* prune_datastore, one round of the loop: the next (info, mark); unless it
\* is kept or the run is a dry run, remove_backup_dir(.., false), which is
\* BackupDir::destroy(false); an error is logged and the loop goes on.
PruneStep ==
    /\ GroupFrame
    /\ prune.pc = "run"
    /\ prune.queue # <<>>
    /\ LET s == Head(prune.queue).snap
           mark == Head(prune.queue).mark
       IN  IF prune_removes(prune.keep_all, mark, prune.dry_run)
           THEN \E waited \in (IF g_mlock[s] = "other" THEN BOOLEAN ELSE {TRUE}) :
                \E io_ok \in (IF destroy(g_snaps[s], g_lock[s], g_mlock[s], PruneForce,
                                         waited, TRUE, {}).ok THEN BOOLEAN ELSE {TRUE}) :
                \E r \in {destroy(g_snaps[s], g_lock[s], g_mlock[s], PruneForce,
                                  waited, io_ok, {})} :
                    /\ g_snaps' = [g_snaps EXCEPT ![s] = r.dir]
                    /\ g_lock' = [g_lock EXCEPT ![s] = r.lock]
                    /\ g_mlock' = [g_mlock EXCEPT ![s] = r.mlock]
                    /\ prune' = [prune EXCEPT
                          !.queue = prune_after_remove(@, r.ok),
                          !.attempts = Append(@, [snap |-> s, ok |-> r.ok, err |-> r.err,
                                                  prot |-> PROTECTED_NAME \in g_snaps[s].files,
                                                  force |-> PruneForce])]
           ELSE /\ prune' = [prune EXCEPT !.queue = Tail(@)]
                /\ UNCHANGED <<g_snaps, g_lock, g_mlock>>
    /\ UNCHANGED <<g_dir, g_glock, gd>>

\* prune_datastore returns Ok(()).
PruneEnd ==
    /\ GroupFrame
    /\ prune.pc = "run"
    /\ prune.queue = <<>>
    /\ prune' = [prune EXCEPT !.pc = "done"]
    /\ UNCHANGED <<g_dir, g_snaps, g_lock, g_mlock, g_glock, gd>>

\* BackupGroup::destroy returns: its result, and _guard is dropped.
\* failed: the snapshot whose destroy returned the error, 0 if none.
GdReturn(res, err, failed) ==
    /\ gd' = [gd EXCEPT !.pc = "done", !.res = res, !.err = err, !.todo = <<>>,
                        !.failed = failed]
    /\ g_glock' = drop_guard(g_glock)

\* BackupGroup::destroy, lock_dir_noblock on the group directory: an error
\* if the directory cannot be opened or another process holds the lock.
GdStart ==
    /\ GroupFrame
    /\ gd.pc = "idle"
    /\ IF g_dir /\ g_glock = "free"
       THEN /\ g_glock' = "self"
            /\ gd' = [GdIdle EXCEPT !.pc = "check",
                                    !.todo = [i \in 1..MaxGroupSnaps |-> i]]
       ELSE /\ gd' = [GdIdle EXCEPT !.pc = "done", !.res = "err", !.err = "in use"]
            /\ UNCHANGED g_glock
    /\ UNCHANGED <<g_dir, g_snaps, g_lock, g_mlock, prune>>

\* BackupGroup::destroy, removed_all_snaps after a snapshot was visited.
removed_all_snaps_kept(before, protected) == before
removed_all_snaps(before, protected) == before /\ ~protected

\* BackupGroup::destroy, the loop over iter_snapshots: a protected snapshot
\* is skipped and remembered.
GdCheck ==
    /\ GroupFrame
    /\ gd.pc = "check"
    /\ gd.todo # <<>>
    /\ LET s == Head(gd.todo)
       IN  gd' = IF ~g_snaps[s].exists
                 THEN [gd EXCEPT !.todo = Tail(@)]
                 ELSE IF is_protected(g_snaps[s])
                 THEN [gd EXCEPT !.todo = Tail(@),
                                 !.removed_all = removed_all_snaps(@, TRUE),
                                 !.seen_prot = @ \cup {s}]
                 ELSE [gd EXCEPT !.pc = "destroy"]
    /\ UNCHANGED <<g_dir, g_snaps, g_lock, g_mlock, g_glock, prune>>

\* BackupGroup::destroy, snap.destroy(false)?: an error ends the call.
GdDestroy ==
    /\ GroupFrame
    /\ gd.pc = "destroy"
    /\ LET s == Head(gd.todo)
       IN  \E waited \in (IF g_mlock[s] = "other" THEN BOOLEAN ELSE {TRUE}) :
           \E io_ok \in (IF destroy(g_snaps[s], g_lock[s], g_mlock[s], FALSE,
                                    waited, TRUE, {}).ok THEN BOOLEAN ELSE {TRUE}) :
           \E r \in {destroy(g_snaps[s], g_lock[s], g_mlock[s], FALSE, waited, io_ok, {})} :
               /\ g_snaps' = [g_snaps EXCEPT ![s] = r.dir]
               /\ g_lock' = [g_lock EXCEPT ![s] = r.lock]
               /\ g_mlock' = [g_mlock EXCEPT ![s] = r.mlock]
               /\ IF r.ok
                  THEN /\ gd' = [gd EXCEPT !.pc = "check", !.todo = Tail(@),
                                           !.destroyed = @ \cup {s}]
                       /\ UNCHANGED g_glock
                  ELSE GdReturn("err", r.err, s)
    /\ UNCHANGED <<g_dir, prune>>

\* BackupGroup::destroy after the loop: remove the group directory if no
\* snapshot was protected; Ok(removed_all_snaps).
GdEnd ==
    /\ GroupFrame
    /\ gd.pc = "check"
    /\ gd.todo = <<>>
    /\ IF gd.removed_all
       THEN \E io_ok \in BOOLEAN :
               IF io_ok
               THEN /\ g_dir' = FALSE
                    /\ g_snaps' = [s \in GroupSnaps |-> NoDir]
                    /\ GdReturn("true", "", 0)
               ELSE /\ UNCHANGED <<g_dir, g_snaps>>
                    /\ GdReturn("err", "remove failed", 0)
       ELSE /\ UNCHANGED <<g_dir, g_snaps>>
            /\ GdReturn("false", "", 0)
    /\ UNCHANGED <<g_lock, g_mlock, prune>>

\* What other processes do to the group.
GroupOthers ==
    \/ \E s \in GroupSnaps : GLock(s)
    \/ \E s \in GroupSnaps : GUnlock(s)
    \/ \E s \in GroupSnaps : GLockManifest(s)
    \/ \E s \in GroupSnaps : GUnlockManifest(s)
    \/ \E s \in GroupSnaps, on \in BOOLEAN : GSetProtected(s, on)

PruneNext ==
    \/ GroupOthers
    \/ \E dry_run \in BOOLEAN, keep_all \in BOOLEAN, remove \in SUBSET GroupSnaps :
          PruneStart(dry_run, keep_all, remove)
    \/ PruneStep
    \/ PruneEnd

GroupNext ==
    \/ GroupOthers
    \/ GLockGroup
    \/ GUnlockGroup
    \/ GdStart
    \/ GdCheck
    \/ GdDestroy
    \/ GdEnd

---------------------------------------------------------------------------
(***************************************************************************)
(* The manifest lock file of one snapshot                                  *)
(*                                                                         *)
(* The lock is a flock on the file at manifest_lock_path. A flock belongs  *)
(* to the open file, i.e. to the inode the path named when it was opened;  *)
(* the path can be unlinked and created again while descriptors of the old *)
(* inode are still open.                                                   *)
(***************************************************************************)

MaxLockProcs == 3
MaxInodes == 3

LockProcs == 1..MaxLockProcs
Inodes == 1..MaxInodes

\* No inode (of the path), no process (holding a flock).
NoInode == 0
NoProc == 0

\* A process that is not inside lock_manifest or destroy.
LockProcIdle == [pc |-> "idle", fd |-> NoInode, op |-> "none"]

LockInit ==
    mlck = [path |-> NoInode, next |-> 1,
            holder |-> [i \in Inodes |-> NoProc],
            procs |-> [p \in LockProcs |-> LockProcIdle]]

LockIdle == mlck = <<>>

\* The processes that hold the manifest lock of the snapshot.
LockHolders == {p \in LockProcs : mlck.procs[p].pc \in {"holding", "unlinked"}}

\* lock_manifest, open_backup_lockfile opening the lock file: the file at
\* the path, created if there is none. op: "lock" for a caller that updates
\* or reads the manifest, "destroy" for BackupDir::destroy(false).
lock_manifest_open(p, op) ==
    /\ LockFrame
    /\ mlck.procs[p].pc = "idle"
    /\ IF mlck.path # NoInode
       THEN mlck' = [mlck EXCEPT !.procs[p] = [pc |-> "opened", fd |-> mlck.path, op |-> op]]
       ELSE /\ mlck.next <= MaxInodes
            /\ mlck' = [mlck EXCEPT !.path = mlck.next, !.next = @ + 1,
                                    !.procs[p] = [pc |-> "opened", fd |-> mlck.next, op |-> op]]

\* lock_manifest, the flock on the opened file is granted.
lock_manifest_acquire(p) ==
    /\ LockFrame
    /\ mlck.procs[p].pc = "opened"
    /\ mlck.holder[mlck.procs[p].fd] = NoProc
    /\ mlck' = [mlck EXCEPT !.holder[mlck.procs[p].fd] = p, !.procs[p].pc = "holding"]

\* lock_manifest, the flock is not granted within 5 seconds: an error, the
\* file is closed.
lock_manifest_timeout(p) ==
    /\ LockFrame
    /\ mlck.procs[p].pc = "opened"
    /\ mlck.holder[mlck.procs[p].fd] # NoProc
    /\ mlck' = [mlck EXCEPT !.procs[p] = LockProcIdle]

\* BackupDir::destroy(false) after remove_dir_all: remove_file on the path
\* of the lock file, while _manifest_guard is alive.
destroy_remove_file(p) ==
    /\ LockFrame
    /\ mlck.procs[p].pc = "holding" /\ mlck.procs[p].op = "destroy"
    /\ mlck' = [mlck EXCEPT !.path = NoInode, !.procs[p].pc = "unlinked"]

\* BackupDir::destroy(true) after remove_dir_all: remove_file on the path
\* of the lock file, without any lock.
destroy_force_remove_file ==
    /\ LockFrame
    /\ mlck.path # NoInode
    /\ mlck' = [mlck EXCEPT !.path = NoInode]

\* The guard is dropped: the caller of lock_manifest is done, or destroy
\* returns (protected, removal failed, or Ok after remove_file).
drop_manifest_guard(p) ==
    /\ LockFrame
    /\ mlck.procs[p].pc \in {"holding", "unlinked"}
    /\ mlck' = [mlck EXCEPT !.holder[mlck.procs[p].fd] = NoProc,
                            !.procs[p] = LockProcIdle]

LockNext ==
    \/ \E p \in LockProcs, op \in {"lock", "destroy"} : lock_manifest_open(p, op)
    \/ \E p \in LockProcs : lock_manifest_acquire(p)
    \/ \E p \in LockProcs : lock_manifest_timeout(p)
    \/ \E p \in LockProcs : destroy_remove_file(p)
    \/ destroy_force_remove_file
    \/ \E p \in LockProcs : drop_manifest_guard(p)

---------------------------------------------------------------------------
(***************************************************************************)
(* ROUND-ROBIN DATABASE (src/r_rrd/r_rrd.rs)                                   *)
(* One RRD with its five slot arrays. An array is held as the function    *)
(* from the indices of its slots that differ from RRDEntry::default() to   *)
(* their entries. An f64 is modelled as the exact rational it stands for,  *)
(* [num, den] in lowest terms. Epochs are u64. The clock starts at         *)
(* RrdEpoch0, late enough that none of the unsigned subtractions of update *)
(* and extract_data wraps, or at the small epochs of scenario S7, where    *)
(* they do: a build with overflow checks panics there, a build without     *)
(* them wraps modulo 2^64.                                                 *)
(***************************************************************************)

\* const RRD_DATA_ENTRIES: number of slots of every array
RRD_DATA_ENTRIES == 70

\* number of update calls
MaxRrdUpdates == 3

\* the epoch of the first update is later than this
RrdEpoch0 == 490

\* how far the clock moves between two updates
RrdSteps == {1, 70, 71}

\* the values handed to update
RrdValues == {1, 3}

\* scenario S7: updates at two small epochs, then an extract; the times
\* are scaled down as the resolutions are, and lie below 70 slots of the
\* finest resolution
S7Updates == <<[epoch |-> 10, value |-> 1], [epoch |-> 20, value |-> 2]>>
S7ExtractEpoch == 30

\* width of u64
U64Bits == 64

\* 2^n modulo m
RECURSIVE Pow2Mod(_, _)
Pow2Mod(n, m) == IF n = 0 THEN 1 % m ELSE (2 * Pow2Mod(n - 1, m)) % m

\* A u64 near 0 or near 2^64 is written as the integer of smallest absolute
\* value congruent to it modulo 2^64: v < 0 stands for 2^64 + v. Wrapping
\* addition and subtraction are then + and -.
\* a < b on u64
U64Less(a, b) == IF (a < 0) = (b < 0) THEN a < b ELSE b < 0

\* a - b on u64 leaves the range of u64
SubOverflows(a, b) == U64Less(a, b)

\* ((t / reso) % RRD_DATA_ENTRIES) on u64
SlotIndex(t, reso) ==
    IF t >= 0
    THEN (t \div reso) % RRD_DATA_ENTRIES
    ELSE ((Pow2Mod(U64Bits, RRD_DATA_ENTRIES * reso) + t)
              % (RRD_DATA_ENTRIES * reso)) \div reso

\* extract_data is called with the epoch this much after last_update
RrdExtractAfter == {0, 1, 70}

\* RRDTimeFrameResolution: the seconds of one slot (`timeframe as u64`),
\* scaled down.
RRDTimeFrameResolution ==
    [Hour |-> 1, Day |-> 2, Week |-> 3, Month |-> 5, Year |-> 7]

TimeFrames == DOMAIN RRDTimeFrameResolution

\* RRDMode
RRDMode == {"Max", "Average"}

RrdSlots == 0..(RRD_DATA_ENTRIES - 1)

RECURSIVE Gcd(_, _)
Gcd(a, b) == IF b = 0 THEN a ELSE Gcd(b, a % b)

\* The f64 num/den.
F64(num, den) ==
    LET g == Gcd(num, den) IN [num |-> num \div g, den |-> den \div g]

F64Add(a, b) == F64(a.num * b.den + b.num * a.den, a.den * b.den)
F64Mul(a, b) == F64(a.num * b.num, a.den * b.den)
F64Div(a, b) == F64(a.num * b.den, a.den * b.num)
F64Less(a, b) == a.num * b.den < b.num * a.den

\* RRDEntry::default(): #[derive(Default)]
RRDEntryDefault == [max |-> F64(0, 1), average |-> F64(0, 1), count |-> 0]

\* RRD::new(): every slot of every array is RRDEntry::default()
RRDNewData == [tf \in TimeFrames |-> <<>>]

\* data[index]
Slot(data, index) ==
    IF index \in DOMAIN data THEN data[index] ELSE RRDEntryDefault

\* RRD::compute_new_value(data, index, value)
compute_new_value(data, index, value) ==
    LET count == Slot(data, index).count
        max == Slot(data, index).max
        average == Slot(data, index).average
        new_count == count + 1
    IN IF count = 0
       THEN [max |-> value, average |-> value, count |-> 1]
       ELSE [max |-> IF F64Less(max, value) THEN value ELSE max,
             average |-> F64Div(F64Add(F64Mul(average, F64(count, 1)), value),
                                F64(new_count, 1)),
             count |-> new_count]

\* RRD::update, the loop that drops old slots of one array: the slots of the
\* times last, last + reso, ... (RRD_DATA_ENTRIES of them) that lie before
\* min_time.
update_dropped(last, epoch, reso) ==
    LET min_time == epoch - RRD_DATA_ENTRIES * reso
    IN {(SlotIndex(last, reso) + k) % RRD_DATA_ENTRIES :
            k \in {j \in RrdSlots : U64Less(last + j * reso, min_time)}}

\* RRD::update: the arrays whose min_time is below 0
update_overflows(epoch) ==
    {tf \in TimeFrames :
        SubOverflows(epoch, RRD_DATA_ENTRIES * RRDTimeFrameResolution[tf])}

\* RRD::update, one array.
update_array(data, last, epoch, reso, value) ==
    LET dropped == update_dropped(last, epoch, reso)
        kept == [i \in DOMAIN data \ dropped |-> data[i]]
        index == SlotIndex(epoch, reso)
    IN [i \in DOMAIN kept \cup {index} |->
            IF i = index THEN compute_new_value(kept, index, value) ELSE kept[i]]

\* The epochs whose values slot i aggregates; none for a slot that holds
\* RRDEntry::default().
TimesAt(times, i) == IF i \in DOMAIN times THEN times[i] ELSE {}

\* The epochs the slots aggregate, after the same update.
update_times(times, last, epoch, reso) ==
    LET dropped == update_dropped(last, epoch, reso)
        index == SlotIndex(epoch, reso)
    IN [i \in (DOMAIN times \ dropped) \cup {index} |->
            (IF i \in dropped THEN {} ELSE TimesAt(times, i))
                \cup (IF i = index THEN {epoch} ELSE {})]

\* RRD::extract_data(epoch, timeframe, mode): the list of (time, value);
\* has = FALSE is serde's skipped value (None).
NoValue == F64(0, 1)

\* RRD::extract_data: start or rrd_start is below 0
extract_overflows(r, epoch, timeframe) ==
    LET reso == RRDTimeFrameResolution[timeframe]
    IN \/ SubOverflows(reso * (epoch \div reso), reso * RRD_DATA_ENTRIES)
       \/ SubOverflows(reso * (r.last_update \div reso), reso * RRD_DATA_ENTRIES)

extract_data(r, epoch, timeframe, mode) ==
    LET reso == RRDTimeFrameResolution[timeframe]
        end == reso * (epoch \div reso)
        start == end - reso * RRD_DATA_ENTRIES
        rrd_end == reso * (r.last_update \div reso)
        rrd_start == rrd_end - reso * RRD_DATA_ENTRIES
        data == r.data[timeframe]
    IN [i \in 1..RRD_DATA_ENTRIES |->
            LET t == start + (i - 1) * reso
                index == (SlotIndex(start, reso) + (i - 1)) % RRD_DATA_ENTRIES
                entry == Slot(data, index)
            IN IF U64Less(t, rrd_start) \/ U64Less(rrd_end, t)
               THEN [time |-> t, has |-> FALSE, value |-> NoValue]
               ELSE IF entry.count = 0
                    THEN [time |-> t, has |-> FALSE, value |-> NoValue]
                    ELSE [time |-> t, has |-> TRUE,
                          value |-> IF mode = "Max" THEN entry.max
                                    ELSE entry.average]]

NoRrdCall ==
    [op |-> "none", epoch |-> 0, last |-> 0, value |-> 0, timeframe |-> "Hour",
     mode |-> "Max", entries |-> <<>>, wrapped |-> FALSE, panic |-> FALSE]

RrdInit ==
    /\ r_rrd = [last_update |-> 0, data |-> RRDNewData]
    /\ r_times = [tf \in TimeFrames |-> <<>>]
    /\ r_count = 0
    /\ r_last = NoRrdCall

\* no RRD
RrdIdle ==
    /\ r_rrd = <<>>
    /\ r_times = <<>>
    /\ r_count = 0
    /\ r_last = <<>>

\* RRD::update(epoch, value). With overflow checks the call panics at the
\* first array whose min_time is below 0: the arrays before it are written,
\* last_update is not.
RrdUpdate(epoch, value, overflow_checks) ==
    /\ RrdFrame
    /\ ~r_last.panic
    /\ r_count < MaxRrdUpdates
    /\ \E last \in {r_rrd.last_update}, over \in {update_overflows(epoch)} :
        /\ overflow_checks => over # {}
        /\ r_rrd' = [last_update |-> IF overflow_checks THEN last ELSE epoch,
                     data |-> [tf \in TimeFrames |->
                                IF overflow_checks /\ tf \in over
                                THEN r_rrd.data[tf]
                                ELSE update_array(r_rrd.data[tf], last, epoch,
                                                  RRDTimeFrameResolution[tf],
                                                  F64(value, 1))]]
        /\ r_times' = [tf \in TimeFrames |->
                          IF overflow_checks /\ tf \in over
                          THEN r_times[tf]
                          ELSE update_times(r_times[tf], last, epoch,
                                            RRDTimeFrameResolution[tf])]
        /\ r_last' = [NoRrdCall EXCEPT !.op = "update", !.epoch = epoch,
                                       !.last = last, !.value = value,
                                       !.wrapped = (over # {}),
                                       !.panic = overflow_checks]
    /\ r_count' = r_count + 1

\* RRD::extract_data(epoch, timeframe, mode) on an RRD that was updated.
\* It changes nothing in the RRD, so one extract between two updates shows
\* all that any number of them would. With overflow checks the call panics
\* when start or rrd_start is below 0.
RrdExtract(epoch, timeframe, mode, overflow_checks) ==
    /\ RrdFrame
    /\ ~r_last.panic
    /\ r_count > 0
    /\ r_last.op = "update"
    /\ \E over \in {extract_overflows(r_rrd, epoch, timeframe)} :
        /\ overflow_checks => over
        /\ r_last' = [NoRrdCall EXCEPT
                !.op = "extract", !.epoch = epoch,
                !.last = r_rrd.last_update,
                !.timeframe = timeframe, !.mode = mode,
                !.entries = IF overflow_checks THEN <<>>
                            ELSE extract_data(r_rrd, epoch, timeframe, mode),
                !.wrapped = over, !.panic = overflow_checks]
    /\ UNCHANGED <<r_rrd, r_times, r_count>>

\* the next update: later than the last one, or the next one of scenario S7
UpdateCalls ==
    {[epoch |-> (IF r_count = 0 THEN RrdEpoch0 ELSE r_rrd.last_update) + d,
      value |-> v] : d \in RrdSteps, v \in RrdValues}
    \cup (IF r_count < Len(S7Updates)
              /\ (r_count = 0 \/ r_rrd.last_update = S7Updates[r_count].epoch)
          THEN {S7Updates[r_count + 1]} ELSE {})

ExtractEpochs ==
    {r_rrd.last_update + d : d \in RrdExtractAfter}
    \cup (IF r_rrd.last_update = S7Updates[Len(S7Updates)].epoch
          THEN {S7ExtractEpoch} ELSE {})

RrdNext ==
    \/ \E call \in UpdateCalls, overflow_checks \in BOOLEAN :
          RrdUpdate(call.epoch, call.value, overflow_checks)
    \/ \E epoch \in ExtractEpochs, timeframe \in TimeFrames, mode \in RRDMode,
          overflow_checks \in BOOLEAN :
          RrdExtract(epoch, timeframe, mode, overflow_checks)

---------------------------------------------------------------------------
(***************************************************************************)
(* LISTING A BACKUP GROUP (pbs-datastore/src/backup_info.rs)               *)
(* One group directory whose entries are named like backup times: snapshot *)
(* directories with or without a manifest, and plain files. The listing    *)
(* calls meet the entries in any order.                                    *)
(***************************************************************************)

\* number of names in the group directory
MaxListSnaps == 3

ListNames == 1..MaxListSnaps

\* A plain file, and a snapshot directory whose backup has not finished.
FileEntry == [exists |-> TRUE, files |-> {}, file_type |-> "File"]
UnfinishedDir == [exists |-> TRUE, files |-> {"drive.img.fidx"}]
FinishedDataDir == [exists |-> TRUE, files |-> {"drive.img.fidx", MANIFEST_BLOB_NAME}]

ListEntries == {NoDir, FileEntry, UnfinishedDir, FinishedDataDir}

\* Option<T>
None == [some |-> FALSE, val |-> 0]
Some(v) == [some |-> TRUE, val |-> v]

\* BackupInfo::is_finished
is_finished(info) == MANIFEST_BLOB_NAME \in info.files

\* BackupGroup::last_backup: filter, then Iterator::max_by_key (the last of
\* the greatest elements).
last_backup(list, only_finished) ==
    LET kept == SelectSeq(list, LAMBDA item : ~only_finished \/ is_finished(item))
        best == {i \in 1..Len(kept) : \A j \in 1..Len(kept) : kept[j].time <= kept[i].time}
    IN IF kept = <<>> THEN None
       ELSE Some(kept[CHOOSE i \in best : \A j \in best : j <= i])

\* last_successful_backup, openat(l2_fd, <backup_time>/index.json.blob):
\* "ok", "ENOENT", or another error for the entry named fail.
openat_manifest_any(dirs, name, fail) == "ok"
openat_manifest(dirs, name, fail) ==
    IF name = fail THEN "EACCES"
    ELSE IF MANIFEST_BLOB_NAME \in dirs[name].files THEN "ok"
    ELSE "ENOENT"

\* last_successful_backup, the callback of scandir over the entries of the
\* scan from the i-th on; last is the captured variable.
RECURSIVE last_successful_scan(_, _, _, _, _)
last_successful_scan(dirs, scan, i, fail, last) ==
    IF i > Len(scan) THEN [ok |-> TRUE, last |-> last]
    ELSE IF scan[i].file_type # "Directory"
         THEN last_successful_scan(dirs, scan, i + 1, fail, last)
    ELSE LET opened == openat_manifest(dirs, scan[i].name, fail)
             timestamp == parse_rfc3339(scan[i].name)
         IN IF opened = "ENOENT"
            THEN last_successful_scan(dirs, scan, i + 1, fail, last)
            ELSE IF opened # "ok" THEN [ok |-> FALSE, last |-> None]
            ELSE IF last.some
                 THEN last_successful_scan(dirs, scan, i + 1, fail,
                          IF timestamp > last.val THEN Some(timestamp) ELSE last)
                 ELSE last_successful_scan(dirs, scan, i + 1, fail, Some(timestamp))

\* BackupGroup::last_successful_backup
last_successful_backup(dirs, scan, fail) ==
    last_successful_scan(dirs, scan, 1, fail, None)

\* no entry whose manifest cannot be opened
NoName == 0

NoListCall ==
    [op |-> "none", scan |-> <<>>, list |-> <<>>, ascending |-> FALSE,
     only_finished |-> FALSE, ok |-> TRUE, res |-> None]

ListInit ==
    /\ l_snaps \in [ListNames -> ListEntries]
    /\ l_last = NoListCall

ListIdle ==
    /\ l_snaps = <<>>
    /\ l_last = <<>>

\* The listing calls leave the directory as it is, so each is applied to
\* the directory as it was found; sort_list is applied to a returned list.

\* group.list_backups()
ListBackups(scan) ==
    /\ ListFrame
    /\ l_last.op = "none"
    /\ l_last' = [NoListCall EXCEPT !.op = "list_backups", !.scan = scan,
                                    !.list = list_backups(l_snaps, scan)]
    /\ UNCHANGED l_snaps

\* BackupInfo::sort_list(&mut list, ascending) on a list that was returned
SortList(ascending) ==
    /\ ListFrame
    /\ l_last.op = "list_backups"
    /\ l_last' = [l_last EXCEPT !.op = "sort_list", !.ascending = ascending,
                                !.list = sort_list(l_last.list, ascending)]
    /\ UNCHANGED l_snaps

\* group.last_backup(only_finished)
LastBackup(scan, only_finished) ==
    /\ ListFrame
    /\ l_last.op = "none"
    /\ \E r \in {last_backup(list_backups(l_snaps, scan), only_finished)} :
         l_last' = [NoListCall EXCEPT !.op = "last_backup", !.scan = scan,
                                      !.only_finished = only_finished,
                                      !.res = IF r.some THEN Some(r.val.time) ELSE None]
    /\ UNCHANGED l_snaps

\* group.last_successful_backup()
LastSuccessfulBackup(scan, fail) ==
    /\ ListFrame
    /\ l_last.op = "none"
    /\ \E r \in {last_successful_backup(l_snaps, scan, fail)} :
         l_last' = [NoListCall EXCEPT !.op = "last_successful_backup",
                                      !.scan = scan, !.ok = r.ok, !.res = r.last]
    /\ UNCHANGED l_snaps

ListNext ==
    \/ \E scan \in scandir(l_snaps) : ListBackups(scan)
    \/ \E ascending \in BOOLEAN : SortList(ascending)
    \/ \E scan \in scandir(l_snaps), only_finished \in BOOLEAN :
          LastBackup(scan, only_finished)
    \/ \E scan \in scandir(l_snaps) :
          \E fail \in {NoName} \cup {n \in ListNames : file_type(l_snaps[n]) = "Directory"
                                                        /\ l_snaps[n].exists} :
             LastSuccessfulBackup(scan, fail)

---------------------------------------------------------------------------
(***************************************************************************)
(* PRUNE MARKS (spec section 4.G)                                          *)
(* compute_prune_info on the list of one group. A backup time is a number  *)
(* of hours since Monday 2024-01-01T00:00:00Z, in a calendar whose months  *)
(* all have 31 days.                                                       *)
(***************************************************************************)

\* number of snapshots in a list (the list of scenario S3 is added to these)
MaxMarkSnaps == 2

HoursPerDay == 24
DaysPerWeek == 7
DaysPerMonth == 31
MonthsPerYear == 12

\* 2024-01-01, 2024-01-02, 2024-01-10, 2024-01-10T05, 2024-02-01, 2025-02-..
MarkTimes == {0, 24, 216, 221, 744, 9600}

\* Scenario S3: 2024-01-01, 01-02, 01-03, 01-10, 02-01.
S3List == <<0, 24, 48, 216, 744>>

\* The keep options of PruneOptions, in the order the algorithm visits them.
Buckets == <<"last", "hourly", "daily", "weekly", "monthly", "yearly">>

BucketNames == {Buckets[i] : i \in DOMAIN Buckets}

\* An option that is not set.
Unset == -1

MarkLimits == {Unset, 0, 1, 2}

DayOf(t) == t \div HoursPerDay
MonthOf(t) == DayOf(t) \div DaysPerMonth
YearOf(t) == MonthOf(t) \div MonthsPerYear

\* The key of a snapshot in a bucket; ordinal: its place in the sorted list.
BucketKey(bucket, t, ordinal) ==
    CASE bucket = "last" -> <<ordinal>>
      [] bucket = "hourly" -> <<DayOf(t), t % HoursPerDay>>
      [] bucket = "daily" -> <<DayOf(t)>>
      [] bucket = "weekly" -> <<DayOf(t) \div DaysPerWeek>>
      [] bucket = "monthly" -> <<YearOf(t), MonthOf(t) % MonthsPerYear>>
      [] bucket = "yearly" -> <<YearOf(t)>>

\* One snapshot met by the walk: for each bucket in order, keep it for the
\* bucket if the limit is set, its key is unseen and the bucket is not full.
\* st: [seen: bucket -> keys, kept: bucket -> snapshots].
RECURSIVE mark_buckets(_, _, _, _, _)
mark_buckets(st, b, info, ordinal, options) ==
    IF b > Len(Buckets) THEN st
    ELSE LET bucket == Buckets[b]
             key == BucketKey(bucket, info.time, ordinal)
             keep == /\ options[bucket] # Unset
                     /\ key \notin st.seen[bucket]
                     /\ Cardinality(st.seen[bucket]) < options[bucket]
         IN mark_buckets(
                IF keep
                THEN [seen |-> [st.seen EXCEPT ![bucket] = @ \cup {key}],
                      kept |-> [st.kept EXCEPT ![bucket] = @ \cup {info.snap}]]
                ELSE st,
                b + 1, info, ordinal, options)

\* The walk over the sorted list, newest to oldest; a protected snapshot
\* takes no part in the selection.
RECURSIVE mark_walk(_, _, _, _)
mark_walk(st, sorted, i, options) ==
    IF i > Len(sorted) THEN st
    ELSE mark_walk(IF sorted[i].protected THEN st
                   ELSE mark_buckets(st, 1, sorted[i], i, options),
                   sorted, i + 1, options)

\* compute_prune_info(list, options): the sorted list with one mark per
\* snapshot, and the snapshots each bucket keeps.
compute_prune_marks(list, options) ==
    LET sorted == sort_list(list, FALSE)
        st == mark_walk([seen |-> [b \in BucketNames |-> {}],
                         kept |-> [b \in BucketNames |-> {}]],
                        sorted, 1, options)
    IN [kept |-> st.kept,
        marks |-> [i \in 1..Len(sorted) |->
                     [snap |-> sorted[i].snap,
                      mark |-> IF sorted[i].protected THEN "protected"
                               ELSE IF \E b \in BucketNames : sorted[i].snap \in st.kept[b]
                                    THEN "keep"
                               ELSE "remove"]]]

\* BackupInfo of a snapshot whose backup time is t hours.
MarkInfo(t, protected) ==
    [snap |-> t, time |-> t, files |-> {MANIFEST_BLOB_NAME}, protected |-> protected]

\* The lists list_backups can return: up to MaxMarkSnaps of the times, and
\* the list of S3, in any order of the scan.
MarkLists ==
    UNION {Perms(S) : S \in {T \in SUBSET MarkTimes : Cardinality(T) <= MaxMarkSnaps}}
        \cup {S3List}

NoMarks == [done |-> FALSE, kept |-> <<>>, marks |-> <<>>]

MarkInit ==
    /\ \E times \in MarkLists :
       \E prot \in {{}} \cup {{times[i]} : i \in DOMAIN times} :
       \E b1, b2 \in BucketNames :
       \E l1, l2 \in MarkLimits :
          m_in = [list |-> [i \in DOMAIN times |-> MarkInfo(times[i], times[i] \in prot)],
                  options |-> [b \in BucketNames |->
                                  IF b = b1 THEN l1 ELSE IF b = b2 THEN l2 ELSE Unset]]
    /\ m_out = NoMarks

MarkIdle ==
    /\ m_in = <<>>
    /\ m_out = <<>>

\* compute_prune_info(list, &prune_options)
ComputePruneInfo ==
    /\ MarkFrame
    /\ ~m_out.done
    /\ \E r \in {compute_prune_marks(m_in.list, m_in.options)} :
          m_out' = [done |-> TRUE, kept |-> r.kept, marks |-> r.marks]
    /\ UNCHANGED m_in

MarkNext == ComputePruneInfo

----------------------------------------------------------------------------
(***************************************************************************)
(* Chunk store: insert by temp file and rename, next to read, touch and    *)
(* removal of the same digest.  One digest is modelled; a file is an inode *)
(* with its bytes, the canonical path and each temp path a directory entry *)
(* naming an inode.                                                        *)
(***************************************************************************)

MaxInserts == 3
ChunkLen == 2
Inserters == {1, 2}
StoreInodes == 1..MaxInserts
NoFile == 0

\* the encoded chunks a caller may hand to insert for the one digest
\* (the second one is the colliding payload of scenario S1)
ChunkContents == {[i \in 1..ChunkLen |-> 1], [i \in 1..ChunkLen |-> 2]}

\* rename(2): replaces whatever the canonical path names
rename_replace(canon, ino) ==
    [canon |-> ino, result |-> "inserted", discard |-> FALSE]

\* rename of the temp file to the canonical path; on EEXIST the temp
\* file is discarded and the existing file is kept
rename_noreplace(canon, ino) ==
    IF canon = NoFile
    THEN [canon |-> ino, result |-> "inserted", discard |-> FALSE]
    ELSE [canon |-> canon, result |-> "already_present", discard |-> TRUE]

NoInsert ==
    [pc |-> "idle", ino |-> NoFile, bytes |-> <<>>, result |-> "none",
     before |-> NoFile, before_data |-> <<>>, after_data |-> <<>>]

StoreInit ==
    /\ st_canon = NoFile
    /\ st_data = [i \in StoreInodes |-> <<>>]
    /\ st_atime = 0
    /\ st_ins = [w \in Inserters |-> NoInsert]
    /\ st_count = 0
    /\ st_read = [done |-> FALSE, found |-> FALSE, data |-> <<>>]

\* no store: nothing is declared but the empty canonical path
StoreIdle ==
    /\ st_canon = NoFile
    /\ st_data = <<>>
    /\ st_atime = 0
    /\ st_ins = <<>>
    /\ st_count = 0
    /\ st_read = <<>>

\* insert, step 1: create <shard>/.tmp-<nonce>
InsertCreate(w, bytes) ==
    /\ StoreFrame
    /\ st_ins[w].pc \in {"idle", "done"}
    /\ st_count < MaxInserts
    /\ st_count' = st_count + 1
    /\ st_ins' = [st_ins EXCEPT ![w] =
                    [NoInsert EXCEPT !.pc = "write", !.ino = st_count + 1,
                                     !.bytes = bytes]]
    /\ st_data' = [st_data EXCEPT ![st_count + 1] = <<>>]
    /\ UNCHANGED <<st_canon, st_atime, st_read>>

\* insert, step 2: write the encoded bytes to the temp file, one at a time
InsertWrite(w) ==
    /\ StoreFrame
    /\ st_ins[w].pc = "write"
    /\ \E ino \in {st_ins[w].ino} :
          /\ Len(st_data[ino]) < Len(st_ins[w].bytes)
          /\ st_data' = [st_data EXCEPT ![ino] =
                Append(@, st_ins[w].bytes[Len(st_data[ino]) + 1])]
          /\ st_ins' = [st_ins EXCEPT ![w].pc =
                IF Len(st_data[ino]) + 1 = Len(st_ins[w].bytes)
                THEN "rename" ELSE "write"]
    /\ UNCHANGED <<st_canon, st_atime, st_count, st_read>>

\* insert, step 3: rename to the canonical path
InsertRename(w) ==
    /\ StoreFrame
    /\ st_ins[w].pc = "rename"
    /\ \E r \in {rename_noreplace(st_canon, st_ins[w].ino)} :
          /\ st_canon' = r.canon
          /\ st_data' = IF r.discard
                        THEN [st_data EXCEPT ![st_ins[w].ino] = <<>>]
                        ELSE st_data
          /\ st_ins' = [st_ins EXCEPT ![w] =
                [@ EXCEPT !.pc = "done", !.result = r.result,
                          !.before = st_canon,
                          !.before_data = IF st_canon = NoFile THEN <<>>
                                          ELSE st_data[st_canon],
                          !.after_data = st_data'[r.canon]]]
    /\ UNCHANGED <<st_atime, st_count, st_read>>

\* read(digest): the whole file the canonical path names, or not_found
StoreRead ==
    /\ StoreFrame
    /\ st_read' = IF st_canon = NoFile
                  THEN [done |-> TRUE, found |-> FALSE, data |-> <<>>]
                  ELSE [done |-> TRUE, found |-> TRUE,
                        data |-> st_data[st_canon]]
    /\ UNCHANGED <<st_canon, st_data, st_atime, st_ins, st_count>>

\* touch(digest): sets the access time, leaves the content alone
StoreTouch ==
    /\ StoreFrame
    /\ st_canon # NoFile
    /\ st_atime = 0
    /\ st_atime' = 1
    /\ UNCHANGED <<st_canon, st_data, st_ins, st_count, st_read>>

\* garbage collection sweep: unlink the canonical path
StoreRemove ==
    /\ StoreFrame
    /\ st_canon # NoFile
    /\ st_canon' = NoFile
    /\ st_atime' = 0
    /\ UNCHANGED <<st_data, st_ins, st_count, st_read>>

StoreNext ==
    \/ \E w \in Inserters, bytes \in ChunkContents : InsertCreate(w, bytes)
    \/ \E w \in Inserters : InsertWrite(w)
    \/ \E w \in Inserters : InsertRename(w)
    \/ StoreRead
    \/ StoreTouch
    \/ StoreRemove

----------------------------------------------------------------------------
(***************************************************************************)
(* RRD CACHE LOCKING (proxmox-rrd/src/cache.rs)                            *)
(* Threads call update_value, apply_journal and extract_cached_data on one *)
(* RRDCache. The state behind the RwLock is the journal, the RRDs in RAM   *)
(* (the set of journal entries applied to them) and, while rrd.update or   *)
(* the journal replay runs, the thread that is in the middle of it.        *)
(***************************************************************************)

MaxRwThreads == 2
MaxRwCalls == 3

RwThreads == 1..MaxRwThreads
NoThread == 0

RwOps == {"update_value", "apply_journal", "extract_cached_data"}

\* RwLock::read(): granted while no thread holds the lock for writing
can_read(lock) == lock.writer = NoThread

\* granted whenever no other writer holds the lock, readers or not
can_write_beside_readers(lock) == lock.writer = NoThread

\* RwLock::write(): granted while no thread holds the lock at all
can_write(lock) == lock.writer = NoThread /\ lock.readers = {}

NoSnap == [journal |-> <<>>, ram |-> {}]
NoSeen == [done |-> FALSE, busy |-> {}, ram |-> {}]
RwIdleThread ==
    [pc |-> "idle", op |-> "none", entry |-> 0, snap |-> NoSnap, seen |-> NoSeen]

RwInit ==
    /\ rw_lock = [writer |-> NoThread, readers |-> {}]
    /\ rw_thr = [t \in RwThreads |-> RwIdleThread]
    /\ rw_journal = <<>>
    /\ rw_ram = {}
    /\ rw_busy = {}
    /\ rw_count = 0

\* no cache: no thread, nothing behind the lock
RwIdle ==
    /\ rw_lock = <<>>
    /\ rw_thr = <<>>
    /\ rw_journal = <<>>
    /\ rw_ram = {}
    /\ rw_busy = {}
    /\ rw_count = 0

\* a thread enters one of the three public functions
RwCall(t, op) ==
    /\ RwFrame
    /\ rw_thr[t].pc = "idle"
    /\ rw_count < MaxRwCalls
    /\ rw_count' = rw_count + 1
    /\ rw_thr' = [rw_thr EXCEPT ![t] =
                    [RwIdleThread EXCEPT !.pc = "lock", !.op = op,
                                         !.entry = rw_count + 1]]
    /\ UNCHANGED <<rw_lock, rw_journal, rw_ram, rw_busy>>

\* self.state.write() of update_value and apply_journal; update_value then
\* decides whether the journal is due (now - last_journal_flush >
\* apply_interval)
RwLockWrite(t, due) ==
    /\ RwFrame
    /\ rw_thr[t].pc = "lock"
    /\ rw_thr[t].op \in {"update_value", "apply_journal"}
    /\ can_write(rw_lock)
    /\ rw_lock' = [rw_lock EXCEPT !.writer = t]
    /\ rw_thr' = [rw_thr EXCEPT ![t].pc =
                    IF rw_thr[t].op = "apply_journal" \/ due
                    THEN "replay" ELSE "append"]
    /\ UNCHANGED <<rw_journal, rw_ram, rw_busy, rw_count>>

\* apply_journal_locked: the replay loop starts to change the RRDs
RwReplay(t) ==
    /\ RwFrame
    /\ rw_thr[t].pc = "replay"
    /\ rw_busy' = rw_busy \cup {t}
    /\ rw_thr' = [rw_thr EXCEPT ![t].pc = "commit"]
    /\ UNCHANGED <<rw_lock, rw_journal, rw_ram, rw_count>>

\* apply_journal_locked: the replay is through, the RRDs are saved and the
\* journal is truncated (saved = FALSE: a save failed, the journal stays)
RwCommit(t, saved) ==
    /\ RwFrame
    /\ rw_thr[t].pc = "commit"
    /\ rw_ram' = rw_ram \cup {rw_journal[i] : i \in DOMAIN rw_journal}
    /\ rw_busy' = rw_busy \ {t}
    /\ rw_journal' = IF saved THEN <<>> ELSE rw_journal
    /\ rw_thr' = [rw_thr EXCEPT ![t].pc =
                    IF rw_thr[t].op = "apply_journal" THEN "unlock" ELSE "append"]
    /\ UNCHANGED <<rw_lock, rw_count>>

\* update_value: append_journal_entry (ok = FALSE: write_all failed and the
\* function returns the error)
RwAppend(t, ok) ==
    /\ RwFrame
    /\ rw_thr[t].pc = "append"
    /\ rw_journal' = IF ok THEN Append(rw_journal, rw_thr[t].entry) ELSE rw_journal
    /\ rw_thr' = [rw_thr EXCEPT ![t].pc = IF ok THEN "update" ELSE "unlock",
                                ![t].snap = [journal |-> rw_journal', ram |-> rw_ram]]
    /\ UNCHANGED <<rw_lock, rw_ram, rw_busy, rw_count>>

\* update_value: rrd.update(now, value) starts to change the RRD
RwUpdate(t) ==
    /\ RwFrame
    /\ rw_thr[t].pc = "update"
    /\ rw_busy' = rw_busy \cup {t}
    /\ rw_thr' = [rw_thr EXCEPT ![t].pc = "updated"]
    /\ UNCHANGED <<rw_lock, rw_journal, rw_ram, rw_count>>

\* update_value: rrd.update is through
RwUpdated(t) ==
    /\ RwFrame
    /\ rw_thr[t].pc = "updated"
    /\ rw_ram' = rw_ram \cup {rw_thr[t].entry}
    /\ rw_busy' = rw_busy \ {t}
    /\ rw_thr' = [rw_thr EXCEPT ![t].pc = "unlock"]
    /\ UNCHANGED <<rw_lock, rw_journal, rw_count>>

\* self.state.read() of extract_cached_data
RwLockRead(t) ==
    /\ RwFrame
    /\ rw_thr[t].pc = "lock"
    /\ rw_thr[t].op = "extract_cached_data"
    /\ can_read(rw_lock)
    /\ rw_lock' = [rw_lock EXCEPT !.readers = @ \cup {t}]
    /\ rw_thr' = [rw_thr EXCEPT ![t].pc = "extract"]
    /\ UNCHANGED <<rw_journal, rw_ram, rw_busy, rw_count>>

\* extract_cached_data: rrd.extract_data reads the RRD
RwExtract(t) ==
    /\ RwFrame
    /\ rw_thr[t].pc = "extract"
    /\ rw_thr' = [rw_thr EXCEPT ![t].pc = "unlock",
                                ![t].seen = [done |-> TRUE, busy |-> rw_busy,
                                             ram |-> rw_ram]]
    /\ UNCHANGED <<rw_lock, rw_journal, rw_ram, rw_busy, rw_count>>

\* the function returns and the guard is dropped
RwUnlock(t) ==
    /\ RwFrame
    /\ rw_thr[t].pc = "unlock"
    /\ rw_lock' = [writer |-> IF rw_lock.writer = t THEN NoThread ELSE rw_lock.writer,
                   readers |-> rw_lock.readers \ {t}]
    /\ rw_thr' = [rw_thr EXCEPT ![t].pc = "idle"]
    /\ UNCHANGED <<rw_journal, rw_ram, rw_busy, rw_count>>

RwNext ==
    \/ \E t \in RwThreads, op \in RwOps : RwCall(t, op)
    \/ \E t \in RwThreads, due \in BOOLEAN : RwLockWrite(t, due)
    \/ \E t \in RwThreads : RwReplay(t)
    \/ \E t \in RwThreads, saved \in BOOLEAN : RwCommit(t, saved)
    \/ \E t \in RwThreads, ok \in BOOLEAN : RwAppend(t, ok)
    \/ \E t \in RwThreads : RwUpdate(t)
    \/ \E t \in RwThreads : RwUpdated(t)
    \/ \E t \in RwThreads : RwLockRead(t)
    \/ \E t \in RwThreads : RwExtract(t)
    \/ \E t \in RwThreads : RwUnlock(t)

----------------------------------------------------------------------------
(***************************************************************************)
(* FILE CHUNKER (src/tools.rs, file_chunker)                               *)
(* One call of file_chunker on a reader that may return short reads. The   *)
(* read buffer is scaled down; it comes from vec::undefined, so it starts  *)
(* with arbitrary contents. The callback of the model returns Ok(true).    *)
(***************************************************************************)

\* const READ_BUFFER_SIZE, scaled down
READ_BUFFER_SIZE == 3
\* longest input
MaxFileLen == 6

FcBytes == {0, 1}
FcInputs == SeqsUpTo(FcBytes, MaxFileLen)
\* chunk sizes, one of them too large for the buffer
FcChunkSizes == 1..(READ_BUFFER_SIZE + 1)

\* file.read(tmp) returned data: it is stored at the start of tmp, which is
\* buf[at..]
read_into(buf, at, data) ==
    [i \in DOMAIN buf |->
        IF at < i /\ i <= at + Len(data) THEN data[i - at] ELSE buf[i]]

\* where the reads of one round of the outer loop start: let mut tmp =
\* &mut buf[..]
tmp_start(pos) == 0

\* &buf[from..to] is within the buffer (a slice index beyond it panics)
slice_ok(from, to) == to <= READ_BUFFER_SIZE

\* &buf[from..to]
slice(buf, from, to) == [i \in 1..(to - from) |-> buf[from + i]]

\* ptr::copy_nonoverlapping(ptr.add(start), ptr, rest); a source byte beyond
\* the buffer is whatever the memory holds (junk)
copy_rest(buf, start, rest, junk) ==
    [i \in DOMAIN buf |->
        IF i <= rest
        THEN (IF start + i <= READ_BUFFER_SIZE THEN buf[start + i] ELSE junk[i])
        ELSE buf[i]]

FcIdleCall ==
    [pc |-> "idle", chunk_size |-> 1, pos |-> 0, file_pos |-> 0, start |-> 0,
     tmp |-> 0, eof |-> FALSE, res |-> "none"]

FcInit ==
    /\ fc_in \in FcInputs
    /\ fc_file = fc_in
    /\ fc_buf \in [1..READ_BUFFER_SIZE -> FcBytes]
    /\ fc \in {[FcIdleCall EXCEPT !.pc = "start", !.chunk_size = cs] :
                    cs \in FcChunkSizes}
    /\ fc_out = <<>>

FcIdle ==
    /\ fc_in = <<>>
    /\ fc_file = <<>>
    /\ fc_buf = <<>>
    /\ fc = <<>>
    /\ fc_out = <<>>

\* the test of chunk_size, and the entry of the outer loop
FcStart ==
    /\ FcFrame
    /\ fc.pc = "start"
    /\ fc' = IF fc.chunk_size > READ_BUFFER_SIZE
             THEN [fc EXCEPT !.pc = "done", !.res = "chunk size too large"]
             ELSE [fc EXCEPT !.pc = "read", !.tmp = tmp_start(fc.pos)]
    /\ UNCHANGED <<fc_in, fc_file, fc_buf, fc_out>>

\* one file.read(tmp) of the inner loop, returning n bytes; 0 only at the
\* end of the input or for an empty tmp
FcRead(n) ==
    /\ FcFrame
    /\ fc.pc = "read"
    /\ n <= Len(fc_file)
    /\ n <= READ_BUFFER_SIZE - fc.tmp
    /\ n = 0 => (fc_file = <<>> \/ fc.tmp = READ_BUFFER_SIZE)
    /\ fc_buf' = read_into(fc_buf, fc.tmp, SubSeq(fc_file, 1, n))
    /\ fc_file' = SubSeq(fc_file, n + 1, Len(fc_file))
    /\ fc' = IF n = 0
             THEN [fc EXCEPT !.eof = TRUE, !.pc = "emit", !.start = 0]
             ELSE IF fc.pos + n > fc.chunk_size
             THEN [fc EXCEPT !.pos = @ + n, !.pc = "emit", !.start = 0]
             ELSE [fc EXCEPT !.pos = @ + n, !.tmp = @ + n, !.start = 0,
                             !.pc = IF fc.pos + n < fc.chunk_size
                                    THEN "read" ELSE "emit"]
    /\ UNCHANGED <<fc_in, fc_out>>

\* file.read(tmp) fails with an error other than Interrupted
FcReadError ==
    /\ FcFrame
    /\ fc.pc = "read"
    /\ fc' = [fc EXCEPT !.pc = "done", !.res = "read chunk failed"]
    /\ UNCHANGED <<fc_in, fc_file, fc_buf, fc_out>>

\* one round of the callback loop: chunk_cb(file_pos, &buf[start..start +
\* chunk_size])
FcCallback ==
    /\ FcFrame
    /\ fc.pc = "emit"
    /\ fc.start + fc.chunk_size <= fc.pos
    /\ IF slice_ok(fc.start, fc.start + fc.chunk_size)
       THEN /\ fc_out' = Append(fc_out,
                    [offset |-> fc.file_pos,
                     data |-> slice(fc_buf, fc.start, fc.start + fc.chunk_size)])
            /\ fc' = [fc EXCEPT !.file_pos = @ + fc.chunk_size,
                                !.start = @ + fc.chunk_size]
       ELSE /\ fc' = [fc EXCEPT !.pc = "done", !.res = "panic"]
            /\ UNCHANGED fc_out
    /\ UNCHANGED <<fc_in, fc_file, fc_buf>>

\* after the callback loop at the end of the input: the last, shorter chunk
FcLast ==
    /\ FcFrame
    /\ fc.pc = "emit"
    /\ fc.start + fc.chunk_size > fc.pos
    /\ fc.eof
    /\ IF fc.start >= fc.pos
       THEN /\ fc' = [fc EXCEPT !.pc = "done", !.res = "ok"]
            /\ UNCHANGED fc_out
       ELSE IF slice_ok(fc.start, fc.pos)
       THEN /\ fc_out' = Append(fc_out,
                    [offset |-> fc.file_pos,
                     data |-> slice(fc_buf, fc.start, fc.pos)])
            /\ fc' = [fc EXCEPT !.pc = "done", !.res = "ok"]
       ELSE /\ fc' = [fc EXCEPT !.pc = "done", !.res = "panic"]
            /\ UNCHANGED fc_out
    /\ UNCHANGED <<fc_in, fc_file, fc_buf>>

\* after the callback loop with more input to come: move the rest to the
\* front of the buffer and start the next round of the outer loop
FcShift ==
    /\ FcFrame
    /\ fc.pc = "emit"
    /\ fc.start + fc.chunk_size > fc.pos
    /\ ~fc.eof
    /\ \E rest \in {fc.pos - fc.start} :
       \E junk \in (IF fc.start + rest <= READ_BUFFER_SIZE
                    THEN {[i \in 1..rest |-> 0]}
                    ELSE [1..rest -> FcBytes]) :
          /\ fc_buf' = copy_rest(fc_buf, fc.start, rest, junk)
          /\ fc' = [fc EXCEPT !.pos = rest, !.pc = "read", !.eof = FALSE,
                              !.tmp = tmp_start(rest)]
    /\ UNCHANGED <<fc_in, fc_file, fc_out>>

FcNext ==
    \/ FcStart
    \/ \E n \in 0..READ_BUFFER_SIZE : FcRead(n)
    \/ FcReadError
    \/ FcCallback
    \/ FcLast
    \/ FcShift

---------------------------------------------------------------------------
(***************************************************************************)
(* Specifications                                                          *)
(***************************************************************************)

InitTape == TapeInit /\ SnapIdle /\ GcIdle /\ CacheIdle /\ GroupIdle /\ LockIdle /\ RrdIdle /\ ListIdle
    /\ MarkIdle
    /\ StoreIdle
    /\ RwIdle
    /\ FcIdle
SpecTape == InitTape /\ [][TapeNext]_vars

InitSnap == SnapInit /\ TapeIdle /\ GcIdle /\ CacheIdle /\ GroupIdle /\ LockIdle /\ RrdIdle /\ ListIdle
    /\ MarkIdle
    /\ StoreIdle
    /\ RwIdle
    /\ FcIdle
SpecSnap == InitSnap /\ [][SnapNext]_vars

InitGc == GcInit /\ TapeIdle /\ SnapIdle /\ CacheIdle /\ GroupIdle /\ LockIdle /\ RrdIdle /\ ListIdle
    /\ MarkIdle
    /\ StoreIdle
    /\ RwIdle
    /\ FcIdle
SpecGc == InitGc /\ [][GcNext]_vars

InitCache == CacheInit /\ TapeIdle /\ SnapIdle /\ GcIdle /\ GroupIdle /\ LockIdle /\ RrdIdle /\ ListIdle
    /\ MarkIdle
    /\ StoreIdle
    /\ RwIdle
    /\ FcIdle
SpecCache == InitCache /\ [][CacheNext]_vars

InitGroup == GroupInit /\ TapeIdle /\ SnapIdle /\ GcIdle /\ CacheIdle /\ LockIdle /\ RrdIdle /\ ListIdle
    /\ MarkIdle
    /\ StoreIdle
    /\ RwIdle
    /\ FcIdle
SpecPrune == InitGroup /\ [][PruneNext]_vars
SpecGroup == InitGroup /\ [][GroupNext]_vars

InitLock == LockInit /\ TapeIdle /\ SnapIdle /\ GcIdle /\ CacheIdle /\ GroupIdle /\ RrdIdle /\ ListIdle
    /\ MarkIdle
    /\ StoreIdle
    /\ RwIdle
    /\ FcIdle
SpecLock == InitLock /\ [][LockNext]_vars

InitRrd ==
    /\ RrdInit /\ TapeIdle /\ SnapIdle /\ GcIdle /\ CacheIdle /\ GroupIdle
    /\ LockIdle /\ ListIdle
    /\ MarkIdle
    /\ StoreIdle
    /\ RwIdle
    /\ FcIdle
SpecRrd == InitRrd /\ [][RrdNext]_vars

InitList ==
    /\ ListInit /\ TapeIdle /\ SnapIdle /\ GcIdle /\ CacheIdle /\ GroupIdle
    /\ LockIdle /\ RrdIdle
    /\ MarkIdle
    /\ StoreIdle
    /\ RwIdle
    /\ FcIdle
SpecList == InitList /\ [][ListNext]_vars

InitMark ==
    /\ MarkInit
    /\ TapeIdle
    /\ SnapIdle
    /\ GcIdle
    /\ CacheIdle
    /\ GroupIdle
    /\ LockIdle
    /\ RrdIdle
    /\ ListIdle
    /\ StoreIdle
    /\ RwIdle
    /\ FcIdle
SpecMark == InitMark /\ [][MarkNext]_vars

InitStore ==
    /\ StoreInit
    /\ TapeIdle
    /\ SnapIdle
    /\ GcIdle
    /\ CacheIdle
    /\ GroupIdle
    /\ LockIdle
    /\ RrdIdle
    /\ ListIdle
    /\ MarkIdle
    /\ RwIdle
    /\ FcIdle
SpecStore == InitStore /\ [][StoreNext]_vars

InitRw ==
    /\ RwInit
    /\ TapeIdle
    /\ SnapIdle
    /\ GcIdle
    /\ CacheIdle
    /\ GroupIdle
    /\ LockIdle
    /\ RrdIdle
    /\ ListIdle
    /\ MarkIdle
    /\ StoreIdle
    /\ FcIdle
SpecRw == InitRw /\ [][RwNext]_vars

InitFc ==
    /\ FcInit
    /\ TapeIdle
    /\ SnapIdle
    /\ GcIdle
    /\ CacheIdle
    /\ GroupIdle
    /\ LockIdle
    /\ RrdIdle
    /\ ListIdle
    /\ MarkIdle
    /\ StoreIdle
    /\ RwIdle
SpecFc == InitFc /\ [][FcNext]_vars

---------------------------------------------------------------------------
(***************************************************************************)
(* Claims                                                                  *)
(***************************************************************************)
\* C1: Tape round-trip. For every byte string written by the block writer and
\* finished with finish(false), a reader opened on the result opens without
\* error, no read() fails, the bytes delivered so far are always a prefix of
\* the string written, and when a read() returns 0 the bytes delivered are
\* exactly the string written (for every sequence of buffer sizes >= 1).
RoundTripInput == t_in.fin = "complete" /\ t_in.corrupt = "none" /\ ~t_skipped

C1_RoundTrip ==
    RoundTripInput =>
        /\ t_last.ok
        /\ IsPrefix(t_out, t_in.data)
        /\ (t_last.op = "read" /\ t_last.len = 0) => t_out = t_in.data

\* C1 witness: a string spanning several blocks was read back completely and
\* the read that follows the last byte returned 0.
C1_Witness ==
    /\ RoundTripInput
    /\ Len(t_in.data) > PayloadLen
    /\ t_last.op = "read" /\ t_last.len = 0 /\ t_last.ok
    /\ t_out = t_in.data


\* C2: Chunk presence under GC. In every reachable state, every digest
\* referenced by the index of a finished snapshot is in the chunk store.
C2_ChunkPresence ==
    \A w \in Writers :
        writers[w].pc = "finished" =>
            \A d \in writers[w].index : chunks[d].present

\* C3: Touch-and-grace safety. If a writer found digest d present and touched
\* it, and its snapshot was finalized within grace_window of the writer's
\* first observation, then d is never deleted by a sweep: it is in the chunk
\* store in every state in which the snapshot is finished.
C3_TouchAndGrace ==
    \A w \in Writers :
        (writers[w].pc = "finished" /\ writers[w].fin - writers[w].obs <= GraceWindow) =>
            \A d \in writers[w].found : chunks[d].present

\* C9: Protection blocks delete. A destroy(force = false) on a snapshot whose
\* directory holds .protected returns an error and leaves the directory and
\* all its files as they were, whatever the state of the snapshot lock and of
\* the manifest lock.
C9_ProtectionBlocksDelete ==
    (s_last.op = "destroy" /\ ~s_last.force /\ PROTECTED_NAME \in s_last.before.files) =>
        /\ ~s_last.ok
        /\ s_last.after = s_last.before

\* C9 witness: destroy(false) on a protected snapshot obtained both locks,
\* got as far as the protection test and was refused there.
C9_Witness ==
    /\ s_last.op = "destroy" /\ ~s_last.force
    /\ PROTECTED_NAME \in s_last.before.files
    /\ s_last.err = "protected"
    /\ s_last.after = s_last.before

\* C10 as claimed: destroy(force = true) on a protected snapshot removes the
\* snapshot directory and returns success.
C10_ForceOverridesProtection ==
    (s_last.op = "destroy" /\ s_last.force /\ PROTECTED_NAME \in s_last.before.files) =>
        /\ s_last.ok
        /\ ~s_last.after.exists

\* C10 amended: the force flag only skips the snapshot lock and the manifest
\* lock. destroy(force = true) on a protected snapshot returns the "protected"
\* error and leaves the directory in place; on an unprotected snapshot it
\* removes the directory even while other processes hold the locks.
C10_ForceSkipsLocksOnly ==
    (s_last.op = "destroy" /\ s_last.force /\ s_last.before.exists) =>
        IF PROTECTED_NAME \in s_last.before.files
        THEN ~s_last.ok /\ s_last.err = "protected" /\ s_last.after = s_last.before
        ELSE s_last.err # "remove failed" => (s_last.ok /\ ~s_last.after.exists)

\* C10 witness: a forced destroy of a protected snapshot was refused.
C10_Witness ==
    /\ s_last.op = "destroy" /\ s_last.force
    /\ PROTECTED_NAME \in s_last.before.files
    /\ s_last.err = "protected"
    /\ s_last.after.exists

---------------------------------------------------------------------------
(***************************************************************************)
(* RRD cache claims                                                        *)
(***************************************************************************)

Range(seq) == {seq[i] : i \in DOMAIN seq}

\* The RRD of a path after a restart that replays the journal on top of
\* the RRD files.
Recovered(path) ==
    LET rp == journal_replay([p \in Paths |-> NoRRD], rrd_files, journal, {})
    IN  IF rp.map[path] # NoRRD THEN rp.map[path] ELSE rrd_files[path]

\* The RRD that has every update of the sequence applied once, in order.
RECURSIVE ApplyAll(_, _, _)
ApplyAll(rrd, updates, i) ==
    IF i > Len(updates) THEN rrd
    ELSE ApplyAll(RRDUpdate(rrd, updates[i][1], updates[i][2]), updates, i + 1)

Expected(path) ==
    IF c_logged[path] = <<>> THEN NoRRD ELSE ApplyAll(RRDNew, c_logged[path], 1)

AllApplied ==
    \A i \in DOMAIN journal :
        /\ rrd_map[journal[i].rel_path] # NoRRD
        /\ <<journal[i].time, journal[i].value>> \in Range(rrd_map[journal[i].rel_path].data)

\* C5: replaying the journal on a state in which all its entries are
\* already applied leaves every in-RAM RRD unchanged.
C5_IdempotentJournal ==
    AllApplied => journal_replay(rrd_map, rrd_files, journal, {}).map = rrd_map

\* C5 witness: apply_journal ran on a journal of at least two entries that
\* were all applied already, and the journal is still there.
C5_Witness ==
    /\ c_last.op = "apply_journal"
    /\ c_last.kept
    /\ c_last.map_after_flush
    /\ Len(journal) >= 2
    /\ AllApplied

\* C6: every value applied to an in-RAM RRD is in a line of the journal or
\* in the RRD's file; an update whose journal append fails returns an error
\* and leaves the in-RAM RRDs as they were.
C6_JournalThenApply ==
    /\ \A path \in Paths : \A u \in Range(rrd_map[path].data) :
          \/ \E i \in DOMAIN journal :
                journal[i] = JournalEntry(u[1], u[2], path)
          \/ u \in Range(rrd_files[path].data)
    /\ (c_last.op = "update_value" /\ c_last.fault = "append") =>
          (~c_last.ok /\ ~c_last.applied /\ ~c_last.appended /\ c_last.map_after_flush)

\* C6 witness: an update failed to append after its flush committed the
\* journal, so the values in RAM are only in the RRD files.
C6_Witness ==
    /\ c_last.op = "update_value"
    /\ c_last.fault = "append"
    /\ c_last.flushed
    /\ journal = <<>>
    /\ \E path \in Paths : rrd_map[path] # NoRRD /\ rrd_map[path].data # <<>>

\* C7: a flush that reaches the saves empties the journal only if no save
\* failed, and does empty it when no save failed (unless ftruncate itself
\* fails, which the flush returns as an error with the journal kept); when a
\* save fails the journal keeps all its lines and the flush returns Ok.
C7_JournalCommit ==
    (c_last.flushed /\ c_last.saving) =>
        /\ (~c_last.kept => (c_last.empty /\ c_last.errors = 0))
        /\ (c_last.errors = 0 => (c_last.empty \/ (~c_last.flush_ok /\ c_last.kept)))
        /\ (c_last.errors > 0 => (c_last.kept /\ c_last.flush_ok))

\* C7 witness: a flush on a journal with lines met a failing save.
C7_Witness ==
    /\ c_last.flushed
    /\ c_last.saving
    /\ c_last.errors > 0
    /\ c_last.flush_ok
    /\ c_last.kept
    /\ Len(journal) >= 2

\* C7 witness of the commit: a flush saved every RRD and emptied a journal
\* that had lines.
C7_CommitReached ==
    /\ c_last.op = "apply_journal"
    /\ c_last.saving
    /\ c_last.errors = 0
    /\ ~c_last.kept
    /\ journal = <<>>

\* C8 (as claimed): the update_value call that follows an update_value call
\* whose flush failed runs the flush again.
C8_NextUpdateFlushesAgain ==
    (c_last.op = "update_value" /\ c_last.prev_failed) => c_last.flushed

\* C8 (amended): an update_value call runs the flush exactly when its clock
\* reading is more than apply_interval after last_journal_flush, which every
\* flush sets when it starts, whether it then fails or not; and an update
\* whose flush failed still appends its line and applies its value.
C8_RetryAfterInterval ==
    c_last.op = "update_value" =>
        /\ c_last.flushed <=> (c_last.now - c_last.last_flush > ApplyInterval)
        /\ c_last.flushed => last_journal_flush = c_last.now
        /\ ~c_last.flushed => last_journal_flush = c_last.last_flush
        /\ (c_last.failed /\ c_last.fault = "none") =>
              (c_last.ok /\ c_last.appended /\ c_last.applied)

\* C8 witness: the update after a failed flush came more than apply_interval
\* later and ran the flush again.
C8_Witness ==
    /\ c_last.op = "update_value"
    /\ c_last.prev_failed
    /\ c_last.flushed
    /\ c_last.ok

---------------------------------------------------------------------------
(***************************************************************************)
(* Claims about prune and the destruction of snapshots and groups          *)
(***************************************************************************)

\* The attempts of the run to remove snapshot s.
AttemptsOn(s) == {i \in DOMAIN prune.attempts : prune.attempts[i].snap = s}

\* C11: after a real (not dry-run) run of prune_datastore over a group,
\* whatever the marks, every snapshot that carried the protection marker
\* throughout the run still exists and is still protected; and, when the
\* policy keeps something (keep_all false), every snapshot marked for removal
\* was handed to destroy exactly once, and one that was not protected then
\* is gone unless its destroy failed because the snapshot was in use, its
\* manifest lock timed out or the removal itself failed.
C11_PruneKeepsProtected ==
    (prune.pc = "done" /\ ~prune.dry_run) =>
        /\ \A s \in prune.always_prot :
              g_snaps[s].exists /\ PROTECTED_NAME \in g_snaps[s].files
        /\ ~prune.keep_all =>
              \A s \in prune.marked :
                  /\ Cardinality(AttemptsOn(s)) = 1
                  /\ \A i \in AttemptsOn(s) :
                        ~prune.attempts[i].prot =>
                            \/ prune.attempts[i].ok /\ ~g_snaps[s].exists
                            \/ ~prune.attempts[i].ok /\ prune.attempts[i].err \in
                                  {"in use", "manifest lock timeout", "remove failed"}

\* A run that had a protected and an unprotected snapshot marked for
\* removal: the first is kept, the second removed.
C11_Witness ==
    /\ prune.pc = "done" /\ ~prune.dry_run /\ ~prune.keep_all
    /\ \E s \in prune.always_prot \cap prune.marked : g_snaps[s].exists
    /\ \E i \in DOMAIN prune.attempts :
          /\ ~prune.attempts[i].prot /\ prune.attempts[i].ok
          /\ ~g_snaps[prune.attempts[i].snap].exists

\* C12: BackupDir::destroy(false) on a snapshot whose lock another process
\* holds returns the 'in use' error of lock_dir_noblock, whether or not the
\* manifest lock is held and would be released in time (the call never gets
\* to wait for it), and leaves the snapshot directory and both locks as they
\* were.
C12_InUseNotDestroyed ==
    (s_last.op = "destroy" /\ ~s_last.force /\ s_last.lock = "other") =>
        /\ ~s_last.ok
        /\ s_last.err = "in use"
        /\ s_last.after = s_last.before

\* A destroy refused for a finished snapshot in use, while the manifest lock
\* is held as well and would not be released within the timeout.
C12_Witness ==
    /\ s_last.op = "destroy" /\ ~s_last.force /\ s_last.lock = "other"
    /\ s_last.mlock = "other" /\ ~s_last.waited
    /\ s_last.err = "in use"
    /\ MANIFEST_BLOB_NAME \in s_last.after.files


\* C13: at no time do two processes hold the manifest lock of the same
\* snapshot, in any interleaving of lock_manifest callers and destroy calls,
\* including those in which destroy unlinks the lock file while other
\* processes wait on it or create it again.
C13_ManifestLockExclusive == Cardinality(LockHolders) <= 1


\* C14: whenever a call of BackupDir::destroy(false) has returned, with Ok
\* or with any error (in use, manifest lock timeout, protected, removal
\* failed), the caller holds neither the snapshot lock nor the manifest lock
\* of the snapshot; and once BackupGroup::destroy has returned, with Ok or
\* with any error, it does not hold the group lock either. ("self" marks a
\* lock held by the caller.)
C14_LocksReleased ==
    /\ \A s \in GroupSnaps : g_lock[s] # "self" /\ g_mlock[s] # "self"
    /\ gd.pc = "done" => g_glock # "self"

\* A group destroy ended by a manifest lock timeout, after which other
\* processes have taken the group lock and the lock of the snapshot that the
\* call had held.
C14_Witness ==
    /\ gd.pc = "done" /\ gd.res = "err" /\ gd.err = "manifest lock timeout"
    /\ g_glock = "other"
    /\ g_lock[gd.failed] = "other"


\* C15: once BackupGroup::destroy has returned Ok(false), it found at least
\* one snapshot protected, the group directory and every snapshot it found
\* protected exist, and every other snapshot of the group is gone (a
\* snapshot that exists was found protected); once it has returned
\* Ok(true), it found no snapshot protected and the group directory with
\* all its snapshots is gone.
C15_GroupDestroyResult ==
    /\ (gd.pc = "done" /\ gd.res = "false") =>
          /\ gd.seen_prot # {}
          /\ g_dir
          /\ \A s \in gd.seen_prot : g_snaps[s].exists
          /\ \A s \in GroupSnaps :
                g_snaps[s].exists => s \in gd.seen_prot
    /\ (gd.pc = "done" /\ gd.res = "true") =>
          /\ gd.seen_prot = {}
          /\ ~g_dir
          /\ \A s \in GroupSnaps : ~g_snaps[s].exists


\* A group destroy that removed an unprotected snapshot and returned
\* Ok(false) because of a protected one.
C15_Witness ==
    /\ gd.pc = "done" /\ gd.res = "false"
    /\ gd.destroyed # {} /\ gd.seen_prot # {}
    /\ \A s \in gd.destroyed : ~g_snaps[s].exists
    /\ \A s \in gd.seen_prot : g_snaps[s].exists


---------------------------------------------------------------------------
(***************************************************************************)
(* Claims about the framed block reader                                    *)
(***************************************************************************)

\* The payload bytes of the first k frames of the medium, in order.
RECURSIVE Payloads(_, _)
Payloads(frames, k) ==
    IF k = 0 THEN <<>>
    ELSE Payloads(frames, k - 1) \o
         [i \in 1..frames[k].size |-> PayloadAt(frames[k], i)]

\* A medium written without finish(): full frames only, no END_OF_STREAM.
TruncatedInput == t_in.fin = "none" /\ t_in.corrupt = "none" /\ ~t_skipped

\* C16: on a medium that ends at the file mark with no END_OF_STREAM frame
\* (the writer never called finish), read() never returns 0: every successful
\* read delivers at least one byte, the bytes delivered are a prefix of the
\* payload of the frames on the medium, and a read fails only when all of
\* that payload has been delivered; the read that then hits the file mark
\* fails with 'stream without end marker'.
C16_TruncatedStream ==
    (TruncatedInput /\ t_last.op = "read") =>
        /\ IsPrefix(t_out, Payloads(tape, Len(tape)))
        /\ t_last.ok => t_last.len >= 1
        /\ ~t_last.ok =>
              /\ t_out = Payloads(tape, Len(tape))
              /\ ~t_pre.rd.read_error =>
                    (tape_eof /\ t_last.err = "stream without end marker")

\* Two frames were delivered completely and the next read failed at the
\* file mark.
C16_Witness ==
    /\ TruncatedInput /\ t_last.op = "read"
    /\ ~t_last.ok /\ t_last.err = "stream without end marker"
    /\ ~t_pre.rd.read_error
    /\ Len(tape) = 2
    /\ t_out = Payloads(tape, 2) /\ Len(t_out) = 2 * PayloadLen


\* C17: the k-th frame the reader has accepted (k = 0 for the frame read by
\* open, then 1, 2, ...) carries seq_nr = k, and read() delivers payload of
\* accepted frames only: the frame a read has copied bytes from is the last
\* accepted one, so no byte of a frame rejected for its sequence number (or
\* for any other header anomaly) is ever delivered.
C17_SequenceChecking ==
    reader.open =>
        /\ reader.seq_nr <= tape_pos
        /\ \A k \in 0..(reader.seq_nr - 1) : tape[k + 1].seq_nr = k
        /\ (t_last.op = "read" /\ t_last.ok /\ t_last.len > 0) =>
              /\ reader.buffer = tape[reader.seq_nr]
              /\ reader.buffer.seq_nr = reader.seq_nr - 1


\* C18: once a read() on a reader has returned an error, every later read()
\* on it returns an error and delivers no bytes (whatever was called in
\* between); the reader stays poisoned.
C18_ReadPoisoning ==
    /\ t_failed => reader.read_error
    /\ (t_last.op = "read" /\ t_pre.failed) =>
          /\ ~t_last.ok
          /\ t_last.len = 0
          /\ t_out = t_pre.out

\* A read failed on a frame with a wrong header, skip_data was tried, and a
\* later read failed again.
C18_Witness ==
    /\ t_last.op = "read" /\ t_pre.failed /\ t_skipped
    /\ t_in.corrupt \in CorruptKinds
    /\ ~t_last.ok /\ t_last.err = "read after error"


\* The last call was a read() on a reader in state Eod: the END_OF_STREAM
\* frame was accepted and the file mark after it consumed.
ReadInEod ==
    /\ t_last.op = "read"
    /\ t_pre.rd.open /\ t_pre.rd.got_eod /\ t_pre.rd.found_end_marker

FinishedInput == t_in.fin # "none" /\ t_in.corrupt = "none" /\ ~t_skipped

\* C20: on a properly finished stream no read() fails; a read() with a buffer
\* of n >= 1 bytes returns between 1 and n bytes while payload is still
\* undelivered, and 0 whenever all payload was delivered before the call, so
\* every read after the end returns 0 again; the bytes delivered are those
\* written.
C20_StableEndOfStream ==
    (FinishedInput /\ t_last.op = "read") =>
        /\ t_last.ok
        /\ IsPrefix(t_out, t_in.data)
        /\ Len(t_out) = Len(t_pre.out) + t_last.len
        /\ IF t_pre.out # t_in.data
           THEN 1 <= t_last.len /\ t_last.len <= t_pre.n
           ELSE t_last.len = 0

\* A stream of full frames followed by an empty END_OF_STREAM frame was read
\* to its end, and a read on the reader already at the end returned 0 again.
C20_Witness ==
    /\ FinishedInput /\ t_last.op = "read"
    /\ Len(t_in.data) = MaxDataLen
    /\ t_pre.out = t_in.data /\ t_pre.rd.got_eod
    /\ t_last.ok /\ t_last.len = 0
    /\ reader = t_pre.rd


\* The reader is in state Eod: END_OF_STREAM frame accepted, got_eod set.
InEod == reader.open /\ reader.got_eod /\ reader.found_end_marker

\* C21: a reader reaches state Eod only if the file mark directly follows
\* the END_OF_STREAM frame: the END_OF_STREAM frame is the last accepted
\* frame and no block follows it on the medium. On a medium with a block
\* after the END_OF_STREAM frame no reader is ever in state Eod, and open
\* fails when the first frame is the END_OF_STREAM frame.
C21_TrailingData ==
    /\ InEod => (Len(tape) = reader.seq_nr /\ tape[reader.seq_nr].end_of_stream)
    /\ (t_in.corrupt = "trailing" /\ reader.open) => ~reader.got_eod
    /\ (t_in.corrupt = "trailing" /\ t_last.op = "open" /\ tape[1].end_of_stream) =>
          (~t_last.ok /\ ~reader.open)


\* The END_OF_STREAM frames among the frames the reader has accepted.
EndFrames == {k \in 1..reader.seq_nr : tape[k].end_of_stream}

\* C22: has_end_marker() and is_incomplete() fail while the reader has not
\* reached EOD; at EOD has_end_marker() answers whether an END_OF_STREAM
\* frame was accepted, and is_incomplete() fails if none was and otherwise
\* answers the INCOMPLETE flag of that frame, which is the value the writer
\* passed to finish.
C22_IncompleteFlag ==
    /\ t_query.op = "has_end_marker" =>
          IF ~reader.got_eod THEN ~t_query.ok
          ELSE t_query.ok /\ (t_query.val <=> EndFrames # {})
    /\ t_query.op = "is_incomplete" =>
          IF ~reader.got_eod \/ EndFrames = {} THEN ~t_query.ok
          ELSE /\ t_query.ok
               /\ \A k \in EndFrames : t_query.val = tape[k].incomplete
               /\ t_query.val = (t_in.fin = "incomplete")

\* A stream of several frames finished with finish(true) was read to its
\* end and is_incomplete() answered true.
C22_Witness ==
    /\ t_query.op = "is_incomplete" /\ t_query.ok /\ t_query.val
    /\ t_in.fin = "incomplete" /\ t_in.corrupt = "none"
    /\ Len(t_in.data) > PayloadLen /\ t_out = t_in.data


\* C23: BlockedReader::open on a medium with no block before the file mark
\* returns the EndOfFile error, not an I/O, format or EndOfStream error, and
\* constructs no reader.
C23_OpenEmptyMedium ==
    (t_last.op = "open" /\ tape = <<>>) =>
        /\ ~t_last.ok
        /\ t_last.err = "EndOfFile"
        /\ ~reader.open
        /\ tape_eof

\* Nothing was written before the file mark, and open was called.
C23_Witness ==
    /\ t_last.op = "open" /\ tape = <<>> /\ t_in.data = <<>>
    /\ t_last.err = "EndOfFile" /\ reader = NoReader


---------------------------------------------------------------------------
(***************************************************************************)
(* Claims about the round-robin database                                   *)
(***************************************************************************)

\* The slot of an epoch in the array of a time frame.
SlotOf(epoch, tf) ==
    (epoch \div RRDTimeFrameResolution[tf]) % RRD_DATA_ENTRIES

\* C24: no stale RRD data. After update(epoch, v) on an RRD whose previous
\* last_update is earlier than epoch, in each of the five arrays no slot
\* aggregates a value recorded before epoch - 70 * resolution, and the slot
\* written for epoch aggregates (max, average, count) only values recorded
\* in the resolution period of epoch.
C24_NoStaleData ==
    (r_last.op = "update" /\ r_last.last < r_last.epoch) =>
        \A tf \in TimeFrames :
            LET reso == RRDTimeFrameResolution[tf]
                slot == SlotOf(r_last.epoch, tf)
            IN /\ \A i \in RrdSlots : \A t \in TimesAt(r_times[tf], i) :
                     t >= r_last.epoch - RRD_DATA_ENTRIES * reso
               /\ \A t \in TimesAt(r_times[tf], slot) :
                     t \div reso = r_last.epoch \div reso
               /\ Slot(r_rrd.data[tf], slot).count
                     = Cardinality(TimesAt(r_times[tf], slot))

\* C25: the extract window. extract_data(epoch, resolution, mode) returns
\* exactly 70 entries at the times start, start + resolution, ... with
\* start = resolution * (epoch / resolution) - 70 * resolution; an entry
\* carries a value, the max or the average of its slot according to mode,
\* only if its time lies within the window of last_update and the count of
\* the slot is not zero; entries before last_update - 70 * resolution or
\* after last_update carry no value.
C25_ExtractWindow ==
    (r_last.op = "extract") =>
        LET reso == RRDTimeFrameResolution[r_last.timeframe]
            start == reso * (r_last.epoch \div reso) - RRD_DATA_ENTRIES * reso
            rrd_end == reso * (r_rrd.last_update \div reso)
            rrd_start == rrd_end - RRD_DATA_ENTRIES * reso
        IN /\ Len(r_last.entries) = RRD_DATA_ENTRIES
           /\ \A i \in 1..Len(r_last.entries) :
                LET e == r_last.entries[i]
                    slot == Slot(r_rrd.data[r_last.timeframe],
                                 SlotOf(e.time, r_last.timeframe))
                IN /\ e.time = start + (i - 1) * reso
                   /\ e.has =>
                        /\ rrd_start <= e.time /\ e.time <= rrd_end
                        /\ slot.count # 0
                        /\ e.value = IF r_last.mode = "Max" THEN slot.max
                                     ELSE slot.average
                   /\ (e.time < r_rrd.last_update - RRD_DATA_ENTRIES * reso
                         \/ e.time > r_rrd.last_update) => ~e.has


---------------------------------------------------------------------------
(***************************************************************************)
(* Claims about listing a backup group                                     *)
(***************************************************************************)

\* The snapshot directories of the group, and those that hold a manifest.
SnapshotDirs ==
    {n \in ListNames : l_snaps[n].exists /\ file_type(l_snaps[n]) = "Directory"}

WithManifest == {n \in SnapshotDirs : MANIFEST_BLOB_NAME \in l_snaps[n].files}

\* C26: last_successful_backup returns the greatest timestamp among the
\* snapshot directories of the group that contain the manifest
\* index.json.blob, and None when no snapshot directory contains one; a
\* snapshot without manifest is never returned, even if it is the newest.
C26_LastSuccessful ==
    (l_last.op = "last_successful_backup" /\ l_last.ok) =>
        /\ (WithManifest = {}) => ~l_last.res.some
        /\ (WithManifest # {}) =>
              /\ l_last.res.some
              /\ \E n \in WithManifest : l_last.res.val = parse_rfc3339(n)
              /\ \A n \in WithManifest : parse_rfc3339(n) <= l_last.res.val
        /\ \A n \in SnapshotDirs \ WithManifest :
              ~(l_last.res.some /\ l_last.res.val = parse_rfc3339(n))

\* The newest snapshot of a full group is unfinished and met first by the
\* scan; the call returns an older, finished one.
C26_Witness ==
    /\ l_last.op = "last_successful_backup" /\ l_last.ok
    /\ SnapshotDirs = ListNames
    /\ MaxListSnaps \notin WithManifest
    /\ l_last.scan[1].name = MaxListSnaps
    /\ l_last.res.some
    /\ l_last.res.val < parse_rfc3339(MaxListSnaps)

\* The list is sorted by timestamp, oldest or newest first.
SortedByTime(list, ascending) ==
    \A i, j \in 1..Len(list) :
        i < j => IF ascending THEN list[i].time < list[j].time
                 ELSE list[i].time > list[j].time

\* The directories among the entries of the scan, in the order of the scan.
ScannedDirs(scan) == SelectSeq(scan, LAMBDA e : e.file_type = "Directory")

\* C27 as stated: list_backups yields the snapshots of the group sorted by
\* timestamp, for every order in which the directory scan returns the
\* entries.
C27_ListingSorted ==
    (l_last.op = "list_backups") =>
        (SortedByTime(l_last.list, TRUE) \/ SortedByTime(l_last.list, FALSE))

\* C27, amended: list_backups yields every snapshot directory of the group
\* once, in the order of the directory scan; BackupInfo::sort_list, applied
\* to that list, yields the same snapshots sorted by timestamp, oldest first
\* when ascending and newest first otherwise, for every order of the scan.
C27_ListThenSort ==
    /\ (l_last.op \in {"list_backups", "sort_list"}) =>
          /\ Len(l_last.list) = Cardinality(SnapshotDirs)
          /\ {l_last.list[i].snap : i \in 1..Len(l_last.list)} = SnapshotDirs
          /\ \A i \in 1..Len(l_last.list) :
                l_last.list[i].time = parse_rfc3339(l_last.list[i].snap)
    /\ (l_last.op = "list_backups") =>
          \A i \in 1..Len(l_last.list) :
              l_last.list[i].snap = ScannedDirs(l_last.scan)[i].name
    /\ (l_last.op = "sort_list") => SortedByTime(l_last.list, l_last.ascending)

\* A full group is listed in an order that is sorted in neither direction,
\* then sorted.
C27_Witness ==
    /\ l_last.op = "sort_list"
    /\ SnapshotDirs = ListNames
    /\ Len(l_last.list) = MaxListSnaps
    /\ LET scanned == [i \in 1..Len(l_last.scan) |->
                          [time |-> parse_rfc3339(l_last.scan[i].name)]]
       IN ~SortedByTime(scanned, TRUE) /\ ~SortedByTime(scanned, FALSE)


---------------------------------------------------------------------------
(***************************************************************************)
(* Claims about the prune run                                              *)
(***************************************************************************)

\* C28: a dry run of prune_datastore has no effect on the store. With
\* dry_run = true no step of the run, whatever the marks and whether or not
\* the policy keeps something, calls a removal or changes the group
\* directory, a snapshot directory, its contents or a lock: the store is the
\* same after each step of the run as before it.
C28_DryRunNoEffect ==
    [][((prune'.pc # prune.pc \/ prune'.queue # prune.queue) /\ prune'.dry_run) =>
            /\ UNCHANGED <<g_dir, g_snaps, g_lock, g_mlock, g_glock>>
            /\ prune'.attempts = <<>>]_vars

\* A dry run has ended whose policy marked for removal a snapshot that
\* nothing protects and nobody uses; the snapshot is still there.
C28_Witness ==
    /\ prune.pc = "done" /\ prune.dry_run /\ ~prune.keep_all
    /\ \E s \in prune.marked :
          /\ g_snaps[s] = FinishedDir
          /\ g_lock[s] = "free" /\ g_mlock[s] = "free"

\* C29: prune deletes oldest first. In a real run the snapshots selected for
\* removal are handed to destroy in increasing order of their backup time -
\* when a snapshot is attempted, every older snapshot marked for removal has
\* been attempted before it - and every attempt is the non-forced destroy,
\* which fails on a protected snapshot.
C29_OldestFirst ==
    (~prune.dry_run /\ ~prune.keep_all) =>
        /\ \A i, j \in DOMAIN prune.attempts :
              i < j => parse_rfc3339(prune.attempts[i].snap)
                          < parse_rfc3339(prune.attempts[j].snap)
        /\ \A j \in DOMAIN prune.attempts :
              /\ \A s \in prune.marked :
                    parse_rfc3339(s) < parse_rfc3339(prune.attempts[j].snap) =>
                        \E i \in 1..(j - 1) : prune.attempts[i].snap = s
              /\ prune.attempts[j].snap \in prune.marked
              /\ ~prune.attempts[j].force
              /\ prune.attempts[j].prot => ~prune.attempts[j].ok

\* A real run removed two snapshots, the older one first.
C29_Witness ==
    /\ prune.pc = "done" /\ ~prune.dry_run /\ ~prune.keep_all
    /\ Len(prune.attempts) >= 2
    /\ prune.attempts[1].ok /\ prune.attempts[2].ok
    /\ prune.attempts[1].snap < prune.attempts[2].snap
    /\ ~g_snaps[prune.attempts[1].snap].exists
    /\ ~g_snaps[prune.attempts[2].snap].exists

C31_FailuresNotFatal ==
    (~prune.dry_run /\ ~prune.keep_all) =>
        /\ prune.pc = "done" => \A s \in prune.marked : AttemptsOn(s) # {}
        /\ \A i \in DOMAIN prune.attempts :
              ~prune.attempts[i].ok =>
                  \A s \in prune.marked :
                      s > prune.attempts[i].snap =>
                          \/ \E j \in (i + 1)..Len(prune.attempts) :
                                prune.attempts[j].snap = s
                          \/ /\ prune.pc = "run"
                             /\ \E k \in DOMAIN prune.queue : prune.queue[k].snap = s

\* The attempt on the oldest snapshot failed, the run went on, removed a
\* younger one and returned.
C31_Witness ==
    /\ prune.pc = "done" /\ ~prune.dry_run /\ ~prune.keep_all
    /\ Len(prune.attempts) >= 2
    /\ ~prune.attempts[1].ok
    /\ prune.attempts[2].ok
    /\ ~g_snaps[prune.attempts[2].snap].exists


---------------------------------------------------------------------------
(***************************************************************************)
(* Claims about the prune marks                                            *)
(***************************************************************************)

MarkSnaps == {m_in.list[i].snap : i \in DOMAIN m_in.list}

MarkProtected == {m_in.list[i].snap : i \in {j \in DOMAIN m_in.list : m_in.list[j].protected}}

\* The place of a snapshot in the list sorted newest first.
OrdinalOf(s) == CHOOSE i \in DOMAIN m_out.marks : m_out.marks[i].snap = s

KeyOf(bucket, s) == BucketKey(bucket, s, OrdinalOf(s))

\* What C32 says of a bucket, the snapshots among which a kept snapshot is
\* the newest with its key being given.
BucketSelection(among) ==
    \A b \in BucketNames :
        /\ m_in.options[b] = Unset => m_out.kept[b] = {}
        /\ m_in.options[b] # Unset =>
              /\ Cardinality(m_out.kept[b]) <= m_in.options[b]
              /\ \A s1, s2 \in m_out.kept[b] :
                    s1 # s2 => KeyOf(b, s1) # KeyOf(b, s2)
              /\ \A s \in m_out.kept[b] : \A o \in among :
                    KeyOf(b, o) = KeyOf(b, s) => o <= s

\* A snapshot is pruned iff no bucket keeps it and it is not protected.
PrunedIffUnkept ==
    \A i \in DOMAIN m_out.marks :
        m_out.marks[i].mark = "remove" <=>
            /\ \A b \in BucketNames : m_out.marks[i].snap \notin m_out.kept[b]
            /\ m_out.marks[i].snap \notin MarkProtected

\* Scenario S3: policy {daily = 2, monthly = 1} on the five snapshots keeps
\* exactly 2024-02-01 and 2024-01-10.
S3Policy ==
    [b \in BucketNames |-> IF b = "daily" THEN 2 ELSE IF b = "monthly" THEN 1 ELSE Unset]

S3Kept ==
    (MarkSnaps = {S3List[i] : i \in DOMAIN S3List} /\ MarkProtected = {}
        /\ m_in.options = S3Policy) =>
            {m_out.marks[i].snap : i \in {j \in DOMAIN m_out.marks :
                                            m_out.marks[j].mark # "remove"}} = {744, 216}

----------------------------------------------------------------------------
(***************************************************************************)
(* Claims about the chunk store                                            *)
(***************************************************************************)

\* the canonical path names no file, or one complete chunk that is no
\* inserter's temp file
CanonicalComplete ==
    st_canon # NoFile =>
        /\ st_data[st_canon] \in ChunkContents
        /\ \A w \in Inserters :
              st_ins[w].pc \in {"write", "rename"} => st_ins[w].ino # st_canon

\* an insert that found a chunk at the canonical path reported
\* already_present and left the stored content as it was
InsertKeepsExisting ==
    \A w \in Inserters :
        (st_ins[w].pc = "done" /\ st_ins[w].before # NoFile) =>
            /\ st_ins[w].result = "already_present"
            /\ st_ins[w].after_data = st_ins[w].before_data

\* C33: under any interleaving of insert, read, touch and removal on one
\* digest the canonical path does not exist or holds one complete chunk
\* (never partial content, never a temp file), a read never returns partial
\* content, and an insert made while a chunk exists at the canonical path
\* reports already_present and does not change the stored content.
C33_AtomicInsert ==
    /\ CanonicalComplete
    /\ InsertKeepsExisting
    /\ (st_read.done /\ st_read.found) => st_read.data \in ChunkContents

\* one insert has put a chunk in place, a second insert with the other
\* payload was under way meanwhile and reported already_present, and a read
\* returned the first payload
C33_Witness ==
    /\ st_canon # NoFile
    /\ st_read.done /\ st_read.found /\ st_read.data = st_data[st_canon]
    /\ \E w, v \in Inserters :
          /\ st_ins[w].pc = "done" /\ st_ins[w].result = "inserted"
          /\ st_ins[v].pc = "done" /\ st_ins[v].result = "already_present"
          /\ st_ins[v].bytes # st_ins[w].bytes
          /\ st_ins[v].after_data = st_ins[w].bytes
          /\ st_ins[v].ino < st_ins[w].ino


\* C34: the read() that follows a failed skip_data() on the same reader
\* fails and copies no payload byte into the caller's buffer.
C34_SkipErrorPoisons ==
    [][(t_last.op = "skip_data" /\ ~t_last.ok /\ t_last'.op = "read") =>
           (~t_last'.ok /\ t_last'.len = 0 /\ t_out' = t_out)]_vars


\* A medium that ends at the file mark without an END_OF_STREAM frame: the
\* writer was never finished, and no frame is damaged.
Unfinished == t_in.fin = "none" /\ t_in.corrupt = "none"

\* payload sizes of the frames after the first `from` frames of the medium
RECURSIVE LaterSizes(_, _)
LaterSizes(blocks, from) ==
    IF from >= Len(blocks) THEN 0
    ELSE blocks[from + 1].size + LaterSizes(blocks, from + 1)

\* C35: on a medium that ends at the file mark without an END_OF_STREAM
\* frame skip_data() returns Ok, leaves the reader at EOD with
\* has_end_marker() = false, and returns the unread rest of the current frame
\* plus the payload sizes of all later frames; on a reader not yet at EOD
\* that is the number of payload bytes read() has not delivered.
C35_SkipWithoutEndMarker ==
    (Unfinished /\ t_last.op = "skip_data") =>
        /\ t_last.ok
        /\ reader.got_eod
        /\ has_end_marker(reader) = [ok |-> TRUE, val |-> FALSE]
        /\ t_last.len = (IF Rest(t_pre.rd) > 0 THEN Rest(t_pre.rd) ELSE 0)
                        + LaterSizes(tape, t_pre.pos)
        /\ ~t_pre.rd.got_eod => Len(t_out) + t_last.len = LaterSizes(tape, 0)

\* Two full frames and no end frame; one byte was read, skip_data skipped
\* the other three.
C35_Witness ==
    /\ Unfinished /\ t_last.op = "skip_data"
    /\ Len(tape) = 2 /\ Len(t_out) = 1
    /\ ~t_pre.rd.got_eod /\ t_pre.rd.read_pos = 1 /\ t_pre.pos = 1
    /\ t_last.ok /\ t_last.len = 3
    /\ reader.got_eod /\ ~reader.found_end_marker


\* C36: after skip_data() has returned Ok the next read() returns 0 and
\* delivers nothing, and the next skip_data() returns 0.
C36_SkipConsumes ==
    [][(t_last.op = "skip_data" /\ t_last.ok /\ t_last'.op \in {"read", "skip_data"}
        /\ <<reader, t_pre, t_last>>' # <<reader, t_pre, t_last>>) =>
           (t_last'.ok /\ t_last'.len = 0 /\ t_out' = t_out)]_vars


\* The entries of an extract whose slot covers the time t.
EntryCovering(entries, t, reso) ==
    {i \in DOMAIN entries : entries[i].time = reso * (t \div reso)}

\* The extract of scenario S7, made after its two updates.
S7Extracted ==
    /\ r_last.op = "extract" /\ r_last.epoch = S7ExtractEpoch
    /\ r_last.timeframe = "Hour" /\ r_last.mode = "Max"
    /\ r_count = Len(S7Updates)
    /\ r_last.last = S7Updates[Len(S7Updates)].epoch

\* C37: no update and no extract_data panics or computes a time below 0
\* (epoch - 70 * resolution stays within u64), whatever the epoch; and
\* after the updates of scenario S7 its extract with mode max reports the
\* value of each update in the slot that covers the update's time.
C37_SmallEpochs ==
    /\ ~r_last.panic
    /\ ~r_last.wrapped
    /\ S7Extracted =>
          \A k \in DOMAIN S7Updates :
              \E i \in EntryCovering(r_last.entries, S7Updates[k].epoch,
                                     RRDTimeFrameResolution["Hour"]) :
                  /\ r_last.entries[i].has
                  /\ r_last.entries[i].value = F64(S7Updates[k].value, 1)


----------------------------------------------------------------------------
(***************************************************************************)
(* Claims about the RRD cache lock                                         *)
(***************************************************************************)

\* the threads inside update_value or apply_journal, past self.state.write()
RwWriting ==
    {t \in RwThreads : rw_thr[t].op \in {"update_value", "apply_journal"}
                       /\ rw_thr[t].pc \notin {"idle", "lock"}}

\* the threads inside extract_cached_data, past self.state.read()
RwReading ==
    {t \in RwThreads : rw_thr[t].op = "extract_cached_data"
                       /\ rw_thr[t].pc \notin {"idle", "lock"}}

\* C38: update_value and apply_journal run under the write lock from their
\* first step to their return and extract_cached_data under the read lock:
\* no two updates or flushes overlap, none overlaps an extract, between the
\* journal append and the in-RAM update of one update_value no other thread
\* has changed the journal or the RRDs, and no extract has seen an RRD in
\* the middle of an update or of a journal replay.
C38_CacheLocking ==
    /\ \A t \in RwWriting : rw_lock.writer = t
    /\ \A t \in RwReading : t \in rw_lock.readers
    /\ Cardinality(RwWriting) <= 1
    /\ RwWriting # {} => RwReading = {}
    /\ \A t \in RwThreads :
          rw_thr[t].pc \in {"update", "updated"} =>
              /\ rw_journal = rw_thr[t].snap.journal
              /\ rw_journal[Len(rw_journal)] = rw_thr[t].entry
              /\ rw_ram = rw_thr[t].snap.ram
    /\ \A t \in RwThreads : rw_thr[t].seen.done => rw_thr[t].seen.busy = {}

\* One thread is in the middle of rrd.update after its journal append while
\* a second thread waits for the write lock.
C38_Witness ==
    \E t, u \in RwThreads :
        /\ t # u
        /\ rw_thr[t].op = "update_value" /\ rw_thr[t].pc = "updated"
        /\ rw_busy = {t}
        /\ rw_thr[u].op \in {"update_value", "apply_journal"}
        /\ rw_thr[u].pc = "lock"
        /\ rw_count = MaxRwCalls


\* C39: with no keep option set (keep_all) no step of prune_datastore, in a
\* dry run and in a real run alike and whatever the marks, calls a removal
\* or changes the group directory, a snapshot, its contents or a lock.
C39_KeepAllRemovesNothing ==
    [][((prune'.pc # prune.pc \/ prune'.queue # prune.queue) /\ prune'.keep_all) =>
            /\ UNCHANGED <<g_dir, g_snaps, g_lock, g_mlock, g_glock>>
            /\ prune'.attempts = <<>>]_vars

\* A real run with no keep option is under way: it has passed a snapshot
\* marked for removal that nothing protects and nobody uses, the snapshot is
\* still there, and more snapshots wait in the queue.
C39_Witness ==
    /\ prune.pc = "run" /\ prune.keep_all /\ ~prune.dry_run
    /\ prune.queue # <<>>
    /\ \E s \in prune.marked :
          /\ \A i \in DOMAIN prune.queue : prune.queue[i].snap # s
          /\ g_snaps[s] = FinishedDir
          /\ g_lock[s] = "free" /\ g_mlock[s] = "free"


----------------------------------------------------------------------------
(***************************************************************************)
(* Claims about file_chunker                                               *)
(***************************************************************************)

\* the slices handed to the callback, one after the other
RECURSIVE Slices(_, _)
Slices(out, k) ==
    IF k = 0 THEN <<>> ELSE Slices(out, k - 1) \o out[k].data

\* C40: for every input, every chunk_size up to the size of the read buffer
\* and every sequence of short reads, file_chunker does not panic, calls the
\* callback with the offsets 0, chunk_size, 2 * chunk_size, ... and with
\* slices of exactly chunk_size bytes except possibly the last, the slices
\* so far are the start of the input, and when it returns Ok they are the
\* whole input.
C40_EqualChunks ==
    fc.chunk_size <= READ_BUFFER_SIZE =>
        /\ fc.res # "panic"
        /\ \A k \in DOMAIN fc_out :
              /\ fc_out[k].offset = (k - 1) * fc.chunk_size
              /\ Len(fc_out[k].data) <= fc.chunk_size
              /\ Len(fc_out[k].data) >= 1
              /\ k < Len(fc_out) => Len(fc_out[k].data) = fc.chunk_size
        /\ IsPrefix(Slices(fc_out, Len(fc_out)), fc_in)
        /\ fc.res = "ok" => Slices(fc_out, Len(fc_out)) = fc_in

=============================================================================
